---- MODULE Spec2Model ----
(***************************************************************************)
(* State-machine model of the self-healing control loop                    *)
(* (implementation/Phase3_Autonomous/self_healing_system.py).              *)
(*                                                                         *)
(* One SelfHealingSystem object.  Every call of start_monitoring() is a    *)
(* coroutine l \in Loops; a coroutine runs without interruption between    *)
(* two awaits, so one action is the code from one await to the next:       *)
(*   start_monitoring(l)  the call, up to the first await of tick 1        *)
(*   Wake(l)              the end of  await asyncio.sleep(interval), the   *)
(*                        while test and the next tick up to its 1st await *)
(*   ExecDone(l)          the end of  await _simulate_recovery_action(..), *)
(*                        and the code that follows up to the next await   *)
(*   stop_monitoring      the call                                         *)
(*   initialize           the call (_load_config has no await inside)      *)
(* Metric values are integers (the thresholds of the code are whole        *)
(* numbers); the trend slope is kept as an exact fraction.                 *)
(***************************************************************************)
EXTENDS Integers, Sequences, FiniteSets, TLC

VARIABLES
    is_monitoring,      \* self.is_monitoring
    thresholds,         \* self.health_thresholds: metric name -> {'warning', 'critical'}
    health_metrics,     \* self.health_metrics: metric name -> list of HealthMetric
    issues,             \* the SystemIssue objects ever created (index = object identity)
    active_issues,      \* self.active_issues: insertion-ordered dict issue_id -> object
    resolved_issues,    \* self.resolved_issues: list of objects
    recovery_actions,   \* self.recovery_actions: list of RecoveryAction
    now,                \* int(time.time()): the clock, in seconds
    pc,                 \* per coroutine: "idle", "exec", "sleep", "done"
    loc,                \* per coroutine: its locals (new issues, loop positions, sleep start)
    ticks,              \* number of ticks begun since construction
    budget,             \* ticks the run may still begin (bounds the model)
    varying,            \* MetricSource: the metric whose samples vary in this run
    executor,           \* ActionExecutor: outcome of the strategy at each list position
    probe,              \* arguments and results of direct calls of _determine_health_status
    reader,             \* a thread inside get_health_report: its position and what it has read
    trend_call,         \* arguments and result of a direct call of _calculate_trend
    optimizer,          \* the AutonomousOptimizer object and its loop
    scaler              \* the PredictiveScaler object and its loop

vars == <<is_monitoring, thresholds, health_metrics, issues, active_issues, resolved_issues,
          recovery_actions, now, pc, loc, ticks, budget, varying, executor, probe,
          reader, trend_call, optimizer, scaler>>

----------------------------------------------------------------------------
(* Bounds of the model *)

MaxTicks == 4
MaxLoops == 2
RingTicks == 103
RampTicks == 11
StatusTicks == 1
StopTicks == 2
TwoTicks == 2
FaultTicks == 2
WarmTicks == 8
FarTicks == 1000
ChurnTicks == 2
ReportTicks == 2
SpikeTicks == 5
MaxSeriesLen == 4
OptCycles == 8
OptWarmCycles == 9
ScaleCycles == 13
ScaleWarmCycles == 19
MaxFailures == 1

Loops == 1..MaxLoops

----------------------------------------------------------------------------
(* Program constants and tables *)

None == -1

monitoring_interval == 30

HistoryCap == 100

MetricNames == {"cpu_usage", "memory_usage", "disk_usage", "response_time",
                "error_rate", "connection_count", "queue_depth"}

\* The table __init__ builds (the defaults).
health_thresholds ==
    [cpu_usage        |-> [warning |-> 75,   critical |-> 90],
     memory_usage     |-> [warning |-> 80,   critical |-> 95],
     disk_usage       |-> [warning |-> 85,   critical |-> 95],
     response_time    |-> [warning |-> 1000, critical |-> 3000],
     error_rate       |-> [warning |-> 2,    critical |-> 5],
     connection_count |-> [warning |-> 8000, critical |-> 9500],
     queue_depth      |-> [warning |-> 500,  critical |-> 1000]]

IssueTypes == {"performance_degradation", "memory_leak", "connection_failure",
               "disk_space_low", "service_unresponsive", "security_breach",
               "configuration_error", "network_issue"}

recovery_strategies ==
    [performance_degradation |->
        <<"restart_slow_services", "clear_cache", "optimize_configuration", "scale_resources">>,
     memory_leak |->
        <<"restart_affected_service", "clear_memory_cache", "garbage_collection",
          "memory_optimization">>,
     connection_failure |->
        <<"restart_network_service", "reset_connections", "update_network_config",
          "failover_to_backup">>,
     disk_space_low |->
        <<"cleanup_temp_files", "archive_old_logs", "compress_data", "expand_storage">>,
     service_unresponsive |->
        <<"restart_service", "kill_hanging_processes", "reset_service_config",
          "failover_service">>]

\* self.recovery_strategies.get(issue.issue_type, [])
StrategiesFor(issue_type) ==
    IF issue_type \in DOMAIN recovery_strategies THEN recovery_strategies[issue_type] ELSE <<>>

----------------------------------------------------------------------------
(* The injected collaborators *)

\* What an ActionExecutor call can do: return True, return False, raise.
Outcomes == {"ok", "fail", "raise"}

\* Strategy lists have at most this many entries (the five lists of the table have 4).
NumPositions == Len(recovery_strategies["memory_leak"])

\* The value a steady metric keeps, and the values a varying metric takes.
BaseValue ==
    [cpu_usage |-> 45, memory_usage |-> 60, disk_usage |-> 70, response_time |-> 200,
     error_rate |-> 1, connection_count |-> 3000, queue_depth |-> 100]

VaryingValues ==
    [memory_usage  |-> {60, 85, 96},
     disk_usage    |-> {70, 85, 90, 96},
     response_time |-> {200, 6500},
     error_rate    |-> {1, 3, 6}]

\* A memory source that climbs by RampStep per tick from RampStart, up to the
\* 100 per cent _simulate_memory_usage clamps to: the sample of tick k.
RampStart == [memory_ramp_60 |-> 60, memory_ramp_40 |-> 40]

RampStep == 5

RampValue(v, k) ==
    LET x == RampStart[v] + RampStep * (k - 1)
    IN  IF x > 100 THEN 100 ELSE x

\* The samples one collect() can yield when metric v varies: metric name -> value.
\* A metric whose sampling raises has no value in the sample.
SampleChoices(v) ==
    IF v \in DOMAIN VaryingValues
    THEN {[m \in MetricNames |-> IF m = v THEN x ELSE BaseValue[m]] : x \in VaryingValues[v]}
    ELSE IF v = "unreliable_source"
    THEN {[m \in MetricNames \ failed |-> IF m = "disk_usage" THEN x ELSE BaseValue[m]] :
             x \in {70, 96}, failed \in {{}, {"cpu_usage"}}}
    ELSE IF v = "response_spike"
    THEN {[m \in MetricNames |-> IF m = "response_time" THEN x ELSE BaseValue[m]] :
             x \in {200, 9000}}
    ELSE IF v \in DOMAIN RampStart
    THEN {[m \in MetricNames |->
             IF m = "memory_usage" THEN RampValue(v, ticks + 1) ELSE BaseValue[m]]}
    ELSE {[m \in MetricNames |-> BaseValue[m]]}

----------------------------------------------------------------------------
(* Helpers for Python lists and dicts *)

\* xs[-k:]
LastK(xs, k) == IF Len(xs) <= k THEN xs ELSE SubSeq(xs, Len(xs) - k + 1, Len(xs))

RECURSIVE SumSeq(_)
SumSeq(xs) == IF xs = <<>> THEN 0 ELSE Head(xs) + SumSeq(Tail(xs))

Values(metrics) == [i \in 1..Len(metrics) |-> metrics[i].value]

\* An insertion-ordered dict is a sequence of [key, ref] entries with distinct keys.
DictKeys(d) == {d[i].key : i \in 1..Len(d)}

DictRefs(d) == {d[i].ref : i \in 1..Len(d)}

\* d[k] = ref: a new key goes last, an existing key keeps its place.
DictSet(d, k, ref) ==
    IF k \in DictKeys(d)
    THEN [i \in 1..Len(d) |-> IF d[i].key = k THEN [key |-> k, ref |-> ref] ELSE d[i]]
    ELSE Append(d, [key |-> k, ref |-> ref])

----------------------------------------------------------------------------
(* _determine_health_status *)

\* Mutant of determine_health_status: the warning threshold is tested first.
determine_health_status_WarningFirst(name, value, table) ==
    IF name \notin DOMAIN table THEN "healthy"
    ELSE IF value >= table[name].warning THEN "warning"
    ELSE IF value >= table[name].critical THEN "critical"
    ELSE "healthy"

\* Mutant of determine_health_status: critical needs a value above the threshold.
determine_health_status_StrictCritical(name, value, table) ==
    IF name \notin DOMAIN table THEN "healthy"
    ELSE IF value > table[name].critical THEN "critical"
    ELSE IF value >= table[name].warning THEN "warning"
    ELSE "healthy"

determine_health_status(name, value, table) ==
    IF name \notin DOMAIN table THEN "healthy"
    ELSE IF value >= table[name].critical THEN "critical"
    ELSE IF value >= table[name].warning THEN "warning"
    ELSE "healthy"

----------------------------------------------------------------------------
(* _load_config: self.health_thresholds.update(config.get('thresholds', {})) *)
(* replaces the whole entry of every metric the configuration names.        *)

load_config(table, config) ==
    [m \in DOMAIN table \cup DOMAIN config |->
        IF m \in DOMAIN config THEN config[m] ELSE table[m]]

----------------------------------------------------------------------------
(* _calculate_trend: the least-squares slope, as the exact fraction num/den *)
(* with den > 0.  With a[i] = 2(i - x_mean) and b[i] = n(y[i] - y_mean),    *)
(* numerator = Sum a[i]b[i] / 2n and denominator = Sum a[i]^2 / 4.          *)

TrendNumerator2n(values) ==
    LET n == Len(values)
        total == SumSeq(values)
    IN  SumSeq([i \in 1..n |-> (2 * (i - 1) - (n - 1)) * (n * values[i] - total)])

\* Mutant of TrendDenominator4: the indices are not centred on their mean.
TrendDenominator4_Uncentred(values) ==
    LET n == Len(values)
    IN  SumSeq([i \in 1..n |-> (2 * (i - 1)) * (2 * (i - 1))])

TrendDenominator4(values) ==
    LET n == Len(values)
    IN  SumSeq([i \in 1..n |-> (2 * (i - 1) - (n - 1)) * (2 * (i - 1) - (n - 1))])

calculate_trend(values) ==
    IF Len(values) < 2 THEN [num |-> 0, den |-> 1]
    ELSE IF TrendDenominator4(values) = 0 THEN [num |-> 0, den |-> 1]
    ELSE [num |-> 2 * TrendNumerator2n(values),
          den |-> Len(values) * TrendDenominator4(values)]

\* trend > c, for the fraction trend and the whole number c
TrendAbove(trend, c) == trend.num > c * trend.den

----------------------------------------------------------------------------
(* _collect_health_metrics *)

HealthMetric(name, value, timestamp, table) ==
    [value     |-> value,
     threshold |-> table[name].warning,
     status    |-> determine_health_status(name, value, table),
     timestamp |-> timestamp]

\* Mutant of StoreMetric: the slice keeps the first 100 entries, not the last.
StoreMetric_KeepsOldest(history, metric) ==
    LET appended == Append(history, metric)
    IN  IF Len(appended) > HistoryCap THEN SubSeq(appended, 1, HistoryCap) ELSE appended

\* append, then keep only the last 100 metrics per type
StoreMetric(history, metric) ==
    LET appended == Append(history, metric)
    IN  IF Len(appended) > HistoryCap THEN LastK(appended, HistoryCap) ELSE appended

\* self._determine_health_status(metric) raises KeyError: the entry of the
\* table lacks 'critical', or the value is below critical and it lacks 'warning'.
StatusRaises(name, value, table) ==
    /\ name \in DOMAIN table
    /\ IF "critical" \notin DOMAIN table[name] THEN TRUE
       ELSE value < table[name].critical /\ "warning" \notin DOMAIN table[name]

\* Something inside the try raises: the sampling of a metric (the sample has
\* no value for it), a metric's threshold lookup, or the status evaluation.
CollectRaises(sample, table) ==
    \E m \in MetricNames :
        \/ m \notin DOMAIN sample
        \/ "warning" \notin DOMAIN table[m]
        \/ StatusRaises(m, sample[m], table)

\* The except clause logs and returns: nothing has been stored.
collect_health_metrics(hm, sample, timestamp, table) ==
    IF CollectRaises(sample, table) THEN hm
    ELSE [m \in MetricNames |->
            StoreMetric(hm[m], HealthMetric(m, sample[m], timestamp, table))]

----------------------------------------------------------------------------
(* _detect_issues *)

SystemIssue(prefix, issue_type, severity, clock) ==
    [issue_id           |-> <<prefix, clock>>,
     issue_type         |-> issue_type,
     severity           |-> severity,
     detected_at        |-> clock,
     resolved_at        |-> None,
     resolution_actions |-> <<>>,
     auto_resolved      |-> FALSE]

PerformanceDegradationRule(hm, table, clock) ==
    LET response_metrics == hm["response_time"]
        recent_response ==
            IF Len(response_metrics) >= 5 THEN LastK(response_metrics, 5)
            ELSE response_metrics
    IN  IF response_metrics # <<>>
           /\ SumSeq(Values(recent_response))
                > table["response_time"].critical * Len(recent_response)
        THEN <<SystemIssue("perf_deg", "performance_degradation", "critical", clock)>>
        ELSE <<>>

\* Mutant of MemoryLeakRule: the trend is taken as soon as two samples exist.
MemoryLeakRule_NoMinimumHistory(hm, table, clock) ==
    LET memory_metrics == hm["memory_usage"]
        recent_memory == LastK(memory_metrics, 10)
        memory_trend == calculate_trend(Values(recent_memory))
        current_memory == recent_memory[Len(recent_memory)].value
    IN  IF Len(memory_metrics) >= 2
           /\ TrendAbove(memory_trend, 2)
           /\ current_memory > table["memory_usage"].warning
        THEN <<SystemIssue("mem_leak", "memory_leak",
                           IF current_memory > table["memory_usage"].critical
                           THEN "critical" ELSE "warning",
                           clock)>>
        ELSE <<>>

MemoryLeakRule(hm, table, clock) ==
    LET memory_metrics == hm["memory_usage"]
        recent_memory == LastK(memory_metrics, 10)
        memory_trend == calculate_trend(Values(recent_memory))
        current_memory == recent_memory[Len(recent_memory)].value
    IN  IF Len(memory_metrics) >= 10
           /\ TrendAbove(memory_trend, 2)
           /\ current_memory > table["memory_usage"].warning
        THEN <<SystemIssue("mem_leak", "memory_leak",
                           IF current_memory > table["memory_usage"].critical
                           THEN "critical" ELSE "warning",
                           clock)>>
        ELSE <<>>

\* Mutant of DiskSpaceRule: the rule fires above the critical threshold only.
DiskSpaceRule_NeedsCritical(hm, table, clock) ==
    LET disk_metrics == hm["disk_usage"]
        current_disk == disk_metrics[Len(disk_metrics)].value
    IN  IF disk_metrics # <<>> /\ current_disk > table["disk_usage"].critical
        THEN <<SystemIssue("disk_low", "disk_space_low", "critical", clock)>>
        ELSE <<>>

\* Mutant of DiskSpaceRule: the severity is CRITICAL whatever the sample is,
\* as in the performance and service rules.
DiskSpaceRule_AlwaysCritical(hm, table, clock) ==
    LET disk_metrics == hm["disk_usage"]
        current_disk == disk_metrics[Len(disk_metrics)].value
    IN  IF disk_metrics # <<>> /\ current_disk > table["disk_usage"].warning
        THEN <<SystemIssue("disk_low", "disk_space_low", "critical", clock)>>
        ELSE <<>>

DiskSpaceRule(hm, table, clock) ==
    LET disk_metrics == hm["disk_usage"]
        current_disk == disk_metrics[Len(disk_metrics)].value
    IN  IF disk_metrics # <<>> /\ current_disk > table["disk_usage"].warning
        THEN <<SystemIssue("disk_low", "disk_space_low",
                           IF current_disk > table["disk_usage"].critical
                           THEN "critical" ELSE "warning",
                           clock)>>
        ELSE <<>>

ServiceUnresponsiveRule(hm, table, clock) ==
    LET error_metrics == hm["error_rate"]
        current_error_rate == error_metrics[Len(error_metrics)].value
    IN  IF error_metrics # <<>> /\ current_error_rate > table["error_rate"].critical
        THEN <<SystemIssue("svc_unresponsive", "service_unresponsive", "critical", clock)>>
        ELSE <<>>

\* Filter out issues already being handled: by issue_id.
IsNewIssue(issue, active) == issue.issue_id \notin DictKeys(active)

\* A threshold lookup of a rule raises KeyError (the rules look a key up only
\* where the code reaches the lookup).
PerformanceDegradationRaises(hm, table) ==
    /\ hm["response_time"] # <<>>
    /\ "critical" \notin DOMAIN table["response_time"]

MemoryLeakRaises(hm, table) ==
    LET recent_memory == LastK(hm["memory_usage"], 10)
        current_memory == recent_memory[Len(recent_memory)].value
    IN  /\ Len(hm["memory_usage"]) >= 10
        /\ TrendAbove(calculate_trend(Values(recent_memory)), 2)
        /\ IF "warning" \notin DOMAIN table["memory_usage"] THEN TRUE
           ELSE /\ current_memory > table["memory_usage"].warning
                /\ "critical" \notin DOMAIN table["memory_usage"]

DiskSpaceRaises(hm, table) ==
    LET disk_metrics == hm["disk_usage"]
        current_disk == disk_metrics[Len(disk_metrics)].value
    IN  /\ disk_metrics # <<>>
        /\ IF "warning" \notin DOMAIN table["disk_usage"] THEN TRUE
           ELSE /\ current_disk > table["disk_usage"].warning
                /\ "critical" \notin DOMAIN table["disk_usage"]

ServiceUnresponsiveRaises(hm, table) ==
    /\ hm["error_rate"] # <<>>
    /\ "critical" \notin DOMAIN table["error_rate"]

\* The except clause of _detect_issues returns [].
DetectRaises(hm, table) ==
    \/ PerformanceDegradationRaises(hm, table)
    \/ MemoryLeakRaises(hm, table)
    \/ DiskSpaceRaises(hm, table)
    \/ ServiceUnresponsiveRaises(hm, table)

detect_issues(hm, active, table, clock) ==
    IF DetectRaises(hm, table) THEN <<>> ELSE
    LET found == PerformanceDegradationRule(hm, table, clock)
                 \o MemoryLeakRule(hm, table, clock)
                 \o DiskSpaceRule(hm, table, clock)
                 \o ServiceUnresponsiveRule(hm, table, clock)
    IN  SelectSeq(found, LAMBDA issue : IsNewIssue(issue, active))

----------------------------------------------------------------------------
(* _verify_issue_resolution *)

\* Mutant of verify_issue_resolution: the response-time mean is taken over the
\* last five samples, as in the detection rule, not over the last three.
verify_issue_resolution_LastFive(issue_type, hm, table) ==
    LET last(metrics) == metrics[Len(metrics)].value
    IN  CASE issue_type = "performance_degradation" ->
                LET recent_response == LastK(hm["response_time"], 5)
                IN  /\ hm["response_time"] # <<>>
                    /\ SumSeq(Values(recent_response))
                         < table["response_time"].warning * Len(recent_response)
          [] issue_type = "memory_leak" ->
                /\ hm["memory_usage"] # <<>>
                /\ last(hm["memory_usage"]) < table["memory_usage"].warning
          [] issue_type = "disk_space_low" ->
                /\ hm["disk_usage"] # <<>>
                /\ last(hm["disk_usage"]) < table["disk_usage"].warning
          [] issue_type = "service_unresponsive" ->
                /\ hm["error_rate"] # <<>>
                /\ last(hm["error_rate"]) < table["error_rate"].warning
          [] OTHER -> FALSE

\* Mutant of verify_issue_resolution: the disk comparison is <= instead of <.
verify_issue_resolution_DiskAtWarning(issue_type, hm, table) ==
    LET last(metrics) == metrics[Len(metrics)].value
    IN  CASE issue_type = "performance_degradation" ->
                LET recent_response == LastK(hm["response_time"], 3)
                IN  /\ hm["response_time"] # <<>>
                    /\ SumSeq(Values(recent_response))
                         < table["response_time"].warning * Len(recent_response)
          [] issue_type = "memory_leak" ->
                /\ hm["memory_usage"] # <<>>
                /\ last(hm["memory_usage"]) < table["memory_usage"].warning
          [] issue_type = "disk_space_low" ->
                /\ hm["disk_usage"] # <<>>
                /\ last(hm["disk_usage"]) <= table["disk_usage"].warning
          [] issue_type = "service_unresponsive" ->
                /\ hm["error_rate"] # <<>>
                /\ last(hm["error_rate"]) < table["error_rate"].warning
          [] OTHER -> FALSE

\* A KeyError of the threshold lookup is caught: the function returns False.
verify_issue_resolution(issue_type, hm, table) ==
    LET last(metrics) == metrics[Len(metrics)].value
        warning(name) == table[name].warning
        found(name) == "warning" \in DOMAIN table[name]
    IN  CASE issue_type = "performance_degradation" ->
                LET recent_response == LastK(hm["response_time"], 3)
                IN  /\ hm["response_time"] # <<>>
                    /\ found("response_time")
                    /\ SumSeq(Values(recent_response))
                         < warning("response_time") * Len(recent_response)
          [] issue_type = "memory_leak" ->
                /\ hm["memory_usage"] # <<>>
                /\ found("memory_usage")
                /\ last(hm["memory_usage"]) < warning("memory_usage")
          [] issue_type = "disk_space_low" ->
                /\ hm["disk_usage"] # <<>>
                /\ found("disk_usage")
                /\ last(hm["disk_usage"]) < warning("disk_usage")
          [] issue_type = "service_unresponsive" ->
                /\ hm["error_rate"] # <<>>
                /\ found("error_rate")
                /\ last(hm["error_rate"]) < warning("error_rate")
          [] OTHER -> FALSE

----------------------------------------------------------------------------
(* The object's state and one coroutine's locals, as one record, so that   *)
(* the statements of a handler compose.                                    *)

Cur ==
    [mon  |-> is_monitoring,
     thr  |-> thresholds,
     hm   |-> health_metrics,
     heap |-> issues,
     act  |-> active_issues,
     res  |-> resolved_issues,
     ra   |-> recovery_actions,
     now  |-> now,
     pc   |-> pc,
     loc  |-> loc]

Commit(S) ==
    /\ is_monitoring' = S.mon
    /\ thresholds' = S.thr
    /\ health_metrics' = S.hm
    /\ issues' = S.heap
    /\ active_issues' = S.act
    /\ resolved_issues' = S.res
    /\ recovery_actions' = S.ra
    /\ now' = S.now
    /\ pc' = S.pc
    /\ loc' = S.loc

\* new_issues: the list _detect_issues returned; i: the issue being handled;
\* s: the strategy being executed; slept_at: when asyncio.sleep(interval) began.
NoLocals == [new_issues |-> <<>>, i |-> 0, s |-> 0, slept_at |-> 0]

----------------------------------------------------------------------------
(* _check_recovery_progress *)

\* Mutant of check_recovery_progress: a verified issue is moved to the history
\* as it is, without resolved_at and auto_resolved being set.
check_recovery_progress_VerifiedNotMarked(S) ==
    LET already(ref) == S.heap[ref].resolved_at # None
        verified(ref) ==
            /\ ~already(ref)
            /\ verify_issue_resolution(S.heap[ref].issue_type, S.hm, S.thr)
        leaving(entry) == already(entry.ref) \/ verified(entry.ref)
        staying(entry) == ~leaving(entry)
        moved == SelectSeq(S.act, leaving)
    IN  [S EXCEPT
            !.act = SelectSeq(S.act, staying),
            !.res = S.res \o [k \in 1..Len(moved) |-> moved[k].ref]]

check_recovery_progress(S) ==
    LET already(ref) == S.heap[ref].resolved_at # None
        verified(ref) ==
            /\ ~already(ref)
            /\ verify_issue_resolution(S.heap[ref].issue_type, S.hm, S.thr)
        leaving(entry) == already(entry.ref) \/ verified(entry.ref)
        staying(entry) == ~leaving(entry)
        moved == SelectSeq(S.act, leaving)
    IN  [S EXCEPT
            !.heap = [r \in DOMAIN S.heap |->
                        IF r \in DictRefs(S.act) /\ verified(r)
                        THEN [S.heap[r] EXCEPT !.resolved_at = S.now, !.auto_resolved = TRUE]
                        ELSE S.heap[r]],
            !.act = SelectSeq(S.act, staying),
            !.res = S.res \o [k \in 1..Len(moved) |-> moved[k].ref]]

----------------------------------------------------------------------------
(* _execute_recovery_action: the list of actions after the call, and what  *)
(* the call returns (<<action>>, or <<>> for None).                        *)

RecoveryAction(action_type, issue, clock, success) ==
    [action_id      |-> <<action_type, clock>>,
     action_type    |-> action_type,
     description    |-> issue.issue_type,
     execution_time |-> clock,
     success        |-> success]

execute_recovery_action(ra, action_type, issue, outcome, clock) ==
    IF outcome = "raise"
    THEN [ra |-> ra, ret |-> <<>>]
    ELSE LET recovery_action == RecoveryAction(action_type, issue, clock, outcome = "ok")
         IN  [ra |-> Append(ra, recovery_action), ret |-> <<recovery_action>>]

----------------------------------------------------------------------------
(* _handle_issue, and the loop over the new issues in start_monitoring *)

\* if recovery_action and recovery_action.success
ActionSucceeded(ret) == ret # <<>> /\ ret[1].success

\* Mutant of StrategyLoopEnds: a strategy that raised (None) ends the loop too.
StrategyLoopEnds_StopsOnRaise(ret, s, n) == ret = <<>> \/ ActionSucceeded(ret) \/ s >= n

\* The for loop over the strategies ends at the first success or with the list.
StrategyLoopEnds(ret, s, n) == ActionSucceeded(ret) \/ s >= n

\* Mutant of MarkAutoResolved: the issue is marked whether or not an action succeeded.
MarkAutoResolved_Always(issue, clock) ==
    [issue EXCEPT !.auto_resolved = TRUE, !.resolved_at = clock]

\* Mark as auto-resolved if any action succeeded
MarkAutoResolved(issue, clock) ==
    IF issue.resolution_actions # <<>>
    THEN [issue EXCEPT !.auto_resolved = TRUE, !.resolved_at = clock]
    ELSE issue

\* From the top of "for issue in issues" to the next await: either the await of
\* the first strategy of an issue, or, the list done, _check_recovery_progress
\* and the await of asyncio.sleep(self.monitoring_interval).
RECURSIVE HandleIssues(_, _)
HandleIssues(l, S) ==
    LET L == S.loc[l]
    IN  IF L.i > Len(L.new_issues)
        THEN LET T == check_recovery_progress(S)
             IN  [T EXCEPT !.pc[l] = "sleep",
                           !.loc[l] = [NoLocals EXCEPT !.slept_at = T.now]]
        ELSE LET ref == L.new_issues[L.i]
                 S1 == [S EXCEPT !.act = DictSet(S.act, S.heap[ref].issue_id, ref)]
             IN  IF StrategiesFor(S.heap[ref].issue_type) = <<>>
                 THEN HandleIssues(l, [S1 EXCEPT !.loc[l].i = L.i + 1])
                 ELSE [S1 EXCEPT !.pc[l] = "exec", !.loc[l].s = 1]

\* The strategy loc[l].s of issue loc[l].i has been executed with `outcome`.
AfterAction(l, S, outcome) ==
    LET L == S.loc[l]
        ref == L.new_issues[L.i]
        strategies == StrategiesFor(S.heap[ref].issue_type)
        strategy == strategies[L.s]
        r == execute_recovery_action(S.ra, strategy, S.heap[ref], outcome, S.now)
        S1 == [S EXCEPT !.ra = r.ra]
        S2 == IF ActionSucceeded(r.ret)
              THEN [S1 EXCEPT !.heap[ref].resolution_actions = Append(@, strategy)]
              ELSE S1
    IN  IF ~StrategyLoopEnds(r.ret, L.s, Len(strategies))
        THEN [S2 EXCEPT !.loc[l].s = L.s + 1]
        ELSE HandleIssues(l, [S2 EXCEPT !.heap[ref] = MarkAutoResolved(@, S2.now),
                                        !.loc[l].i = L.i + 1,
                                        !.loc[l].s = 0])

\* Mutant of Tick: _collect_health_metrics has no try of its own; what it
\* raises reaches the except and finally clauses of start_monitoring.
Tick_CollectFailureEndsLoop(l, S, sample) ==
    IF CollectRaises(sample, S.thr)
    THEN [S EXCEPT !.mon = FALSE, !.pc[l] = "done", !.loc[l] = NoLocals]
    ELSE LET S1 == [S EXCEPT !.hm = collect_health_metrics(S.hm, sample, S.now, S.thr)]
             found == detect_issues(S1.hm, S1.act, S1.thr, S1.now)
             base == Len(S1.heap)
         IN  HandleIssues(l, [S1 EXCEPT
                                 !.heap = S1.heap \o found,
                                 !.loc[l].new_issues = [k \in 1..Len(found) |-> base + k],
                                 !.loc[l].i = 1])

\* One pass of the while loop, up to its first await.
Tick(l, S, sample) ==
    LET S1 == [S EXCEPT !.hm = collect_health_metrics(S.hm, sample, S.now, S.thr)]
        found == detect_issues(S1.hm, S1.act, S1.thr, S1.now)
        base == Len(S1.heap)
    IN  HandleIssues(l, [S1 EXCEPT
                            !.heap = S1.heap \o found,
                            !.loc[l].new_issues = [k \in 1..Len(found) |-> base + k],
                            !.loc[l].i = 1])

----------------------------------------------------------------------------
(* get_health_report: the report a caller gets in the current state *)

get_health_report ==
    [system_status |->
        [is_monitoring |-> is_monitoring,
         active_issues |-> Len(active_issues),
         resolved_issues_today |->
            Cardinality({k \in 1..Len(resolved_issues) :
                            /\ issues[resolved_issues[k]].resolved_at # None
                            /\ issues[resolved_issues[k]].resolved_at > now - 86400})],
     current_metrics |->
        [m \in {x \in MetricNames : health_metrics[x] # <<>>} |->
            LET latest == health_metrics[m][Len(health_metrics[m])]
            IN  [value |-> latest.value, status |-> latest.status,
                 threshold |-> latest.threshold, last_updated |-> latest.timestamp]],
     active_issues |->
        [k \in 1..Len(active_issues) |->
            LET issue == issues[active_issues[k].ref]
            IN  [issue_id |-> issue.issue_id, type |-> issue.issue_type,
                 severity |-> issue.severity, detected_at |-> issue.detected_at,
                 resolution_actions |-> issue.resolution_actions]],
     recovery_summary |->
        [total_actions |-> Len(recovery_actions),
         successful_actions |->
            Cardinality({k \in 1..Len(recovery_actions) : recovery_actions[k].success}),
         recent_actions |->
            Cardinality({k \in 1..Len(recovery_actions) :
                            recovery_actions[k].execution_time > now - 86400})]]

----------------------------------------------------------------------------
(* get_health_report called from another thread.  The thread holds         *)
(* metrics_lock from line 623 to its return; the loop takes the lock only  *)
(* to store metrics and to detect, so the statements of _handle_issue and  *)
(* _check_recovery_progress run between the reader's statements.           *)

NoReader == [pc |-> "idle", count |-> 0, used |-> 0, listed |-> 0, result |-> "none"]

\* metrics_lock is free: no reader is between its acquire and its return.
LockFree == reader.pc \in {"idle", "done"}

LoopUnchanged ==
    UNCHANGED <<is_monitoring, thresholds, health_metrics, issues, active_issues,
                resolved_issues, recovery_actions, now, pc, loc, ticks, budget,
                varying, executor, probe, trend_call, optimizer, scaler>>

\* with self.metrics_lock: ... 'active_issues': len(self.active_issues)
ReportEnter ==
    /\ reader.pc = "idle"
    /\ reader' = [reader EXCEPT !.pc = "counted", !.count = Len(active_issues)]
    /\ LoopUnchanged

\* for issue in self.active_issues.values(): the iterator notes the size.
ReportIter ==
    /\ reader.pc = "counted"
    /\ reader' = [reader EXCEPT !.pc = "listing", !.used = Len(active_issues)]
    /\ LoopUnchanged

\* One step of the iterator: RuntimeError (dictionary changed size during
\* iteration) reaches the except clause, which returns {'error': ...};
\* otherwise the next issue is listed, or the report is returned.
ReportNext ==
    /\ reader.pc = "listing"
    /\ reader' =
         IF Len(active_issues) # reader.used
         THEN [reader EXCEPT !.pc = "done", !.result = "error"]
         ELSE IF reader.listed < reader.used
         THEN [reader EXCEPT !.listed = @ + 1]
         ELSE [reader EXCEPT !.pc = "done", !.result = "report"]
    /\ LoopUnchanged

----------------------------------------------------------------------------
(* Direct calls of _calculate_trend *)

NoTrendCall == [values |-> <<>>, called |-> FALSE, trend |-> [num |-> 0, den |-> 1]]

\* The call is made and its result kept.
CallCalculateTrend ==
    /\ ~trend_call.called
    /\ trend_call' = [trend_call EXCEPT !.called = TRUE,
                                        !.trend = calculate_trend(trend_call.values)]
    /\ UNCHANGED <<is_monitoring, thresholds, health_metrics, issues, active_issues,
                   resolved_issues, recovery_actions, now, pc, loc, ticks, budget,
                   varying, executor, probe, reader, optimizer, scaler>>

----------------------------------------------------------------------------
(* Actions *)

Max(a, b) == IF a >= b THEN a ELSE b

start_monitoring(l) ==
    /\ pc[l] = "idle"
    /\ IF is_monitoring
       THEN /\ Commit([Cur EXCEPT !.pc[l] = "done"])
            /\ UNCHANGED <<ticks, budget>>
       ELSE /\ budget > 0
            /\ LockFree
            /\ \E sample \in SampleChoices(varying) :
                  Commit(Tick(l, [Cur EXCEPT !.mon = TRUE], sample))
            /\ ticks' = ticks + 1
            /\ budget' = budget - 1
    /\ UNCHANGED <<varying, executor, probe,
                   reader, trend_call, optimizer, scaler>>

stop_monitoring ==
    /\ is_monitoring' = FALSE
    /\ UNCHANGED <<thresholds, health_metrics, issues, active_issues, resolved_issues,
                   recovery_actions, now, pc, loc, ticks, budget, varying, executor, probe,
                   reader, trend_call, optimizer, scaler>>

\* The configurations _load_config may find: none (no file, an unreadable
\* file, no 'thresholds' key), a valid entry, an entry without 'critical',
\* an entry without 'warning'.
Configs ==
    << <<>>,
       [disk_usage |-> [warning |-> 80, critical |-> 90]],
       [disk_usage |-> [warning |-> 85]],
       [disk_usage |-> [critical |-> 95]] >>

\* initialize(): _load_config() updates the table; nothing is validated and
\* no exception leaves _load_config.  (A caller initializes the object once.)
initialize ==
    /\ thresholds = health_thresholds
    /\ \E k \in 1..Len(Configs) : thresholds' = load_config(thresholds, Configs[k])
    /\ UNCHANGED <<is_monitoring, health_metrics, issues, active_issues, resolved_issues,
                   recovery_actions, now, pc, loc, ticks, budget, varying, executor, probe,
                   reader, trend_call, optimizer, scaler>>

\* Mutant of Wake: the loop is "while True", the flag is never read.
Wake_IgnoresStop(l) ==
    /\ pc[l] = "sleep"
    /\ budget > 0
    /\ LockFree
    /\ LET S == [Cur EXCEPT !.now = Max(now, loc[l].slept_at + monitoring_interval)]
       IN  \E sample \in SampleChoices(varying) : Commit(Tick(l, S, sample))
    /\ ticks' = ticks + 1
    /\ budget' = budget - 1
    /\ UNCHANGED <<varying, executor, probe,
                   reader, trend_call, optimizer, scaler>>

\* asyncio.sleep(self.monitoring_interval) returns: the while test, then a tick
\* or the finally clause.
Wake(l) ==
    /\ pc[l] = "sleep"
    /\ LET S == [Cur EXCEPT !.now = Max(now, loc[l].slept_at + monitoring_interval)]
       IN  IF ~is_monitoring
           THEN /\ Commit([S EXCEPT !.mon = FALSE, !.pc[l] = "done", !.loc[l] = NoLocals])
                /\ UNCHANGED <<ticks, budget>>
           ELSE /\ budget > 0
                /\ LockFree
                /\ \E sample \in SampleChoices(varying) : Commit(Tick(l, S, sample))
                /\ ticks' = ticks + 1
                /\ budget' = budget - 1
    /\ UNCHANGED <<varying, executor, probe,
                   reader, trend_call, optimizer, scaler>>

\* _simulate_recovery_action returns or raises.
ExecDone(l) ==
    /\ pc[l] = "exec"
    /\ Commit(AfterAction(l, Cur, executor[loc[l].s]))
    /\ UNCHANGED <<ticks, budget, varying, executor, probe,
                   reader, trend_call, optimizer, scaler>>

----------------------------------------------------------------------------
(* autonomous_optimizer.py: AutonomousOptimizer *)

OptimizerHistoryCap == 1000
MinimumHistory == 10

performance_thresholds ==
    [cpu_usage |-> 80, memory_usage |-> 85, response_time |-> 500,
     error_rate |-> 1, queue_depth |-> 100]

optimization_parameters ==
    [max_connections  |-> [min |-> 100, max |-> 10000, current |-> 1000],
     thread_pool_size |-> [min |-> 10,  max |-> 200,   current |-> 50],
     cache_size_mb    |-> [min |-> 64,  max |-> 2048,  current |-> 256],
     timeout_seconds  |-> [min |-> 30,  max |-> 300,   current |-> 120],
     batch_size       |-> [min |-> 10,  max |-> 500,   current |-> 100]]

\* The fields of PerformanceMetrics the analysis reads.  What _collect_metrics
\* can return: a quiet system, a loaded one (the simulated response time stays
\* below 250 ms), and the default metrics of its except clause.
CalmMetrics ==
    [cpu_usage |-> 40, memory_usage |-> 50, response_time |-> 150, queue_depth |-> 50]

LoadedMetrics ==
    [cpu_usage |-> 90, memory_usage |-> 90, response_time |-> 150, queue_depth |-> 130]

DefaultMetrics ==
    [cpu_usage |-> 0, memory_usage |-> 0, response_time |-> 1000, queue_depth |-> 0]

CollectedMetrics == {CalmMetrics, LoadedMetrics, DefaultMetrics}

Min(a, b) == IF a <= b THEN a ELSE b

\* int(current * f) for the factor f = tenths / 10
ScaleInt(current, tenths) == (current * tenths) \div 10

OptimizationAction(action_type, parameter, old_value, new_value) ==
    [action_type |-> action_type, parameter |-> parameter,
     old_value |-> old_value, new_value |-> new_value]

\* Each _optimize_* returns <<action>>, or <<>> for None.
optimize_thread_pool(parameters, metrics) ==
    LET current_size == parameters["thread_pool_size"].current
        max_size == parameters["thread_pool_size"].max
    IN  IF current_size < max_size /\ metrics.cpu_usage > 70
        THEN <<OptimizationAction("thread_pool_optimization", "thread_pool_size",
                                  current_size, Min(max_size, ScaleInt(current_size, 12)))>>
        ELSE <<>>

optimize_cache_size(parameters, metrics) ==
    LET current_size == parameters["cache_size_mb"].current
        min_size == parameters["cache_size_mb"].min
    IN  IF metrics.memory_usage > 80
        THEN <<OptimizationAction("cache_optimization", "cache_size_mb",
                                  current_size, Max(min_size, ScaleInt(current_size, 8)))>>
        ELSE <<>>

optimize_connections(parameters, metrics) ==
    LET current_connections == parameters["max_connections"].current
        max_connections == parameters["max_connections"].max
    IN  IF metrics.response_time > 400 /\ current_connections < max_connections
        THEN <<OptimizationAction("connection_optimization", "max_connections",
                                  current_connections,
                                  Min(max_connections, ScaleInt(current_connections, 13)))>>
        ELSE <<>>

optimize_batch_size(parameters, metrics) ==
    LET current_batch == parameters["batch_size"].current
        max_batch == parameters["batch_size"].max
    IN  IF metrics.queue_depth > 80 /\ current_batch < max_batch
        THEN <<OptimizationAction("batch_optimization", "batch_size",
                                  current_batch, Min(max_batch, ScaleInt(current_batch, 14)))>>
        ELSE <<>>

\* statistics.mean of a field over the last five metrics exceeds
\* baseline * tenths / 10
MeanAboveBaseline(history, field, baseline, tenths) ==
    LET recent == LastK(LastK(history, 10), 5)
        total == SumSeq([k \in 1..Len(recent) |-> recent[k][field]])
    IN  10 * total > tenths * baseline[field] * Len(recent)

\* _analyze_and_optimize: the actions, in the order they are identified.
analyze_and_optimize(O, current_metrics) ==
    LET over(field) == current_metrics[field] > performance_thresholds[field]
        trend(field, tenths) ==
            MeanAboveBaseline(O.metrics_history, field, O.baseline_metrics, tenths)
    IN  (IF over("cpu_usage") /\ trend("cpu_usage", 12)
         THEN optimize_thread_pool(O.optimization_parameters, current_metrics) ELSE <<>>)
        \o (IF over("memory_usage") /\ trend("memory_usage", 12)
            THEN optimize_cache_size(O.optimization_parameters, current_metrics) ELSE <<>>)
        \o (IF over("response_time") /\ trend("response_time", 13)
            THEN optimize_connections(O.optimization_parameters, current_metrics) ELSE <<>>)
        \o (IF over("queue_depth") /\ trend("queue_depth", 15)
            THEN optimize_batch_size(O.optimization_parameters, current_metrics) ELSE <<>>)

\* _apply_optimization: the parameter is set and the action recorded.
apply_optimization(O, optimization) ==
    [O EXCEPT
        !.optimization_parameters[optimization.parameter].current = optimization.new_value,
        !.optimization_history = Append(@, optimization)]

RECURSIVE ApplyAll(_, _)
ApplyAll(O, optimizations) ==
    IF optimizations = <<>> THEN O
    ELSE ApplyAll(apply_optimization(O, Head(optimizations)), Tail(optimizations))

\* One pass of the while loop of start_optimization, up to asyncio.sleep.
\* (The awaits inside it yield only to stop_optimization, whose flag is read
\* at the top of the loop.)
OptimizationCycle(O, current_metrics) ==
    LET appended == Append(O.metrics_history, current_metrics)
        O1 == [O EXCEPT !.metrics_history =
                            IF Len(appended) > OptimizerHistoryCap
                            THEN LastK(appended, OptimizerHistoryCap) ELSE appended]
        O2 == IF Len(O1.metrics_history) >= MinimumHistory
              THEN ApplyAll(O1, analyze_and_optimize(O1, current_metrics))
              ELSE O1
    IN  [O2 EXCEPT !.pc = "sleep", !.cycles = @ + 1]

\* The object after __init__ and a successful initialize() that measured a
\* quiet system.
OptimizerConstructed ==
    [is_running |-> FALSE,
     metrics_history |-> <<>>,
     optimization_history |-> <<>>,
     optimization_parameters |-> optimization_parameters,
     baseline_metrics |-> CalmMetrics,
     pc |-> "idle",
     cycles |-> 0]

\* The object after n cycles of a loaded system: fewer than ten metrics, so
\* nothing was analysed yet.
OptimizerWarm(n) ==
    [OptimizerConstructed EXCEPT
        !.is_running = TRUE,
        !.metrics_history = [k \in 1..n |-> LoadedMetrics],
        !.pc = "sleep"]

OptimizerFrame ==
    UNCHANGED <<is_monitoring, thresholds, health_metrics, issues, active_issues,
                resolved_issues, recovery_actions, now, pc, loc, ticks, budget,
                varying, executor, probe, reader, trend_call, scaler>>

start_optimization ==
    /\ optimizer.pc = "idle"
    /\ IF optimizer.is_running
       THEN optimizer' = [optimizer EXCEPT !.pc = "done"]
       ELSE /\ optimizer.cycles < OptCycles
            /\ \E current_metrics \in CollectedMetrics :
                  optimizer' = OptimizationCycle([optimizer EXCEPT !.is_running = TRUE],
                                                 current_metrics)
    /\ OptimizerFrame

\* asyncio.sleep(self.optimization_interval) returns: the while test, then a
\* cycle or the finally clause.
OptimizerWake ==
    /\ optimizer.pc = "sleep"
    /\ IF ~optimizer.is_running
       THEN optimizer' = [optimizer EXCEPT !.pc = "done"]
       ELSE /\ optimizer.cycles < OptCycles
            /\ \E current_metrics \in CollectedMetrics :
                  optimizer' = OptimizationCycle(optimizer, current_metrics)
    /\ OptimizerFrame

stop_optimization ==
    /\ optimizer' = [optimizer EXCEPT !.is_running = FALSE]
    /\ OptimizerFrame

----------------------------------------------------------------------------
(* predictive_scaler.py: PredictiveScaler.  Resource values are floats in  *)
(* the program; here they are whole numbers of hundredths.                  *)

Unit == 100
TrafficHistoryCap == 1000
EnoughHistory == 20
baseline_response_time == 200

ResourceTypes == {"cpu", "memory", "storage", "network", "connections", "threads"}

resource_limits ==
    [cpu         |-> [min |-> 1,    max |-> 64,     current |-> 8],
     memory      |-> [min |-> 2048, max |-> 131072, current |-> 16384],
     storage     |-> [min |-> 100,  max |-> 10240,  current |-> 1024],
     network     |-> [min |-> 100,  max |-> 10000,  current |-> 1000],
     connections |-> [min |-> 100,  max |-> 50000,  current |-> 5000],
     threads     |-> [min |-> 10,   max |-> 1000,   current |-> 100]]

scaling_thresholds ==
    [cpu_usage              |-> [scale_up |-> 75,  scale_down |-> 30],
     memory_usage           |-> [scale_up |-> 80,  scale_down |-> 40],
     response_time          |-> [scale_up |-> 500, scale_down |-> 100],
     connection_utilization |-> [scale_up |-> 85,  scale_down |-> 50]]

\* The fields of TrafficPattern the predictors read.  What
\* _collect_traffic_data can return: the ends of the simulated ranges, and
\* the default pattern of its except clause.
Patterns ==
    [busy    |-> [connection_count |-> 1800, cpu_usage |-> 85, memory_usage |-> 90,
                  response_time |-> 350],
     quiet   |-> [connection_count |-> 600, cpu_usage |-> 25, memory_usage |-> 40,
                  response_time |-> 100],
     default |-> [connection_count |-> 500, cpu_usage |-> 50, memory_usage |-> 60,
                  response_time |-> 200]]

\* The traffic of a run: what was collected before the run begins, and what
\* is collected during it.
Workloads ==
    [rising |-> [before |-> Patterns.default, during |-> Patterns.busy],
     surge  |-> [before |-> Patterns.quiet,   during |-> Patterns.busy],
     ebb    |-> [before |-> Patterns.busy,    during |-> Patterns.quiet]]

\* value * f for the factor f = tenths / 10
Scaled(value, tenths) == (value * tenths) \div 10

RECURSIVE GCD(_, _)
GCD(a, b) == IF b = 0 THEN a ELSE GCD(b, a % b)

\* The same fraction in lowest terms.
Reduced(trend) ==
    LET g == GCD(IF trend.num < 0 THEN 0 - trend.num ELSE trend.num, trend.den)
    IN  [num |-> trend.num \div g, den |-> trend.den \div g]

FieldOf(history, field, k) ==
    LET recent == LastK(history, k)
    IN  [j \in 1..Len(recent) |-> recent[j][field]]

ScalingPrediction(resource_type, current_value, recommended_action) ==
    [resource_type |-> resource_type, current_value |-> current_value,
     recommended_action |-> recommended_action]

\* Each _predict_* returns <<prediction>>, or <<>> for None.
predict_cpu_scaling(resources, current, history) ==
    LET cpu_trend == calculate_trend(FieldOf(history, "cpu_usage", 10))
        current_cpu_cores == resources["cpu"]
        \* predicted_cpu_usage = current.cpu_usage + cpu_trend * 5, times den
        predicted == current.cpu_usage * cpu_trend.den + 5 * cpu_trend.num
    IN  IF predicted > scaling_thresholds["cpu_usage"].scale_up * cpu_trend.den
        THEN <<ScalingPrediction("cpu", current_cpu_cores, "scale_up")>>
        ELSE IF /\ predicted < scaling_thresholds["cpu_usage"].scale_down * cpu_trend.den
                /\ current_cpu_cores > resource_limits["cpu"].min * Unit
        THEN <<ScalingPrediction("cpu", current_cpu_cores, "scale_down")>>
        ELSE <<>>

predict_memory_scaling(resources, current, history) ==
    LET memory_trend == calculate_trend(FieldOf(history, "memory_usage", 10))
        current_memory == resources["memory"]
        predicted == current.memory_usage * memory_trend.den + 5 * memory_trend.num
    IN  IF predicted > scaling_thresholds["memory_usage"].scale_up * memory_trend.den
        THEN <<ScalingPrediction("memory", current_memory, "scale_up")>>
        ELSE IF /\ predicted < scaling_thresholds["memory_usage"].scale_down * memory_trend.den
                /\ current_memory > resource_limits["memory"].min * Unit
        THEN <<ScalingPrediction("memory", current_memory, "scale_down")>>
        ELSE <<>>

predict_connection_scaling(resources, current, history) ==
    LET current_connections == resources["connections"]
        connection_trend == Reduced(calculate_trend(FieldOf(history, "connection_count", 5)))
        \* predicted_connections = connection_count + connection_trend * 3, times den
        predicted == current.connection_count * connection_trend.den
                        + 3 * connection_trend.num
        \* predicted_utilization = predicted_connections / current_connections * 100
        above(c) == predicted * 100 * Unit > c * current_connections * connection_trend.den
        below(c) == predicted * 100 * Unit < c * current_connections * connection_trend.den
    IN  IF above(scaling_thresholds["connection_utilization"].scale_up)
        THEN <<ScalingPrediction("connections", current_connections, "scale_up")>>
        ELSE IF /\ below(scaling_thresholds["connection_utilization"].scale_down)
                /\ current_connections > resource_limits["connections"].min * Unit
        THEN <<ScalingPrediction("connections", current_connections, "scale_down")>>
        ELSE <<>>

predict_thread_scaling(resources, current, history) ==
    LET current_threads == resources["threads"]
        response_trend == calculate_trend(FieldOf(history, "response_time", 5))
    IN  IF \/ current.response_time > scaling_thresholds["response_time"].scale_up
           \/ TrendAbove(response_trend, 50)
        THEN <<ScalingPrediction("threads", current_threads, "scale_up")>>
        ELSE IF /\ current.response_time < scaling_thresholds["response_time"].scale_down
                /\ current_threads > resource_limits["threads"].min * Unit
        THEN <<ScalingPrediction("threads", current_threads, "scale_down")>>
        ELSE <<>>

\* _generate_predictions: the predictions in the order they are made.
generate_predictions(Sc, current_pattern) ==
    LET recent_patterns == LastK(Sc.traffic_history, 20)
    IN  predict_cpu_scaling(Sc.current_resources, current_pattern, recent_patterns)
        \o predict_memory_scaling(Sc.current_resources, current_pattern, recent_patterns)
        \o predict_connection_scaling(Sc.current_resources, current_pattern, recent_patterns)
        \o predict_thread_scaling(Sc.current_resources, current_pattern, recent_patterns)

\* Mutant of NewValue: the upper limit is not applied.
NewValue_Unclamped(prediction) ==
    IF prediction.recommended_action = "scale_up"
    THEN Scaled(prediction.current_value, 12)
    ELSE IF prediction.recommended_action = "scale_down"
    THEN Max(resource_limits[prediction.resource_type].min * Unit,
             Scaled(prediction.current_value, 9))
    ELSE prediction.current_value

\* Calculate new resource value
NewValue(prediction) ==
    IF prediction.recommended_action = "scale_up"
    THEN Min(resource_limits[prediction.resource_type].max * Unit,
             Scaled(prediction.current_value, 12))
    ELSE IF prediction.recommended_action = "scale_down"
    THEN Max(resource_limits[prediction.resource_type].min * Unit,
             Scaled(prediction.current_value, 9))
    ELSE prediction.current_value

ScalingAction(prediction, new_value, success) ==
    [resource_type |-> prediction.resource_type,
     direction |-> prediction.recommended_action,
     from_value |-> prediction.current_value,
     to_value |-> new_value,
     success |-> success,
     performance_impact |-> None]

\* _execute_scaling_action from the return of _simulate_scaling_execution to
\* the await inside _monitor_scaling_impact.
execute_scaling_action(Sc, prediction, success) ==
    LET new_value == NewValue(prediction)
        scaling_action == ScalingAction(prediction, new_value, success)
        Sc1 == IF success
               THEN [Sc EXCEPT !.current_resources[prediction.resource_type] = new_value]
               ELSE Sc
    IN  [Sc1 EXCEPT !.scaling_history = Append(@, scaling_action), !.pc = "monitoring"]

\* The for loop over the predictions reaches its next await: the execution
\* of the next prediction, or asyncio.sleep(self.prediction_interval).
NextPrediction(Sc) ==
    IF Sc.pending = <<>> THEN [Sc EXCEPT !.pc = "sleep"] ELSE [Sc EXCEPT !.pc = "scaling"]

\* One pass of the while loop of start_prediction, up to its first await.
PredictionCycle(Sc, current_pattern) ==
    LET appended == Append(Sc.traffic_history, current_pattern)
        Sc1 == [Sc EXCEPT !.traffic_history =
                              IF Len(appended) > TrafficHistoryCap
                              THEN LastK(appended, TrafficHistoryCap) ELSE appended,
                          !.cycles = @ + 1]
        predictions == IF Len(Sc1.traffic_history) >= EnoughHistory
                       THEN generate_predictions(Sc1, current_pattern)
                       ELSE <<>>
        acted(p) == p.recommended_action # "maintain"
    IN  NextPrediction([Sc1 EXCEPT !.pending = SelectSeq(predictions, acted)])

\* The object as __init__ leaves it, with the traffic it will see.
ScalerConstructed ==
    [is_active |-> FALSE,
     traffic_history |-> <<>>,
     scaling_history |-> <<>>,
     current_resources |-> [r \in ResourceTypes |-> resource_limits[r].current * Unit],
     pending |-> <<>>,
     pc |-> "idle",
     workload |-> "rising",
     failures |-> 0,
     cycles |-> 0]

\* The object after n cycles of the traffic a workload begins with: fewer
\* than twenty patterns, so nothing was predicted yet.
ScalerWarm(n, workload) ==
    [ScalerConstructed EXCEPT
        !.is_active = TRUE,
        !.traffic_history = [k \in 1..n |-> Workloads[workload].before],
        !.pc = "sleep",
        !.workload = workload]

ScalerFrame ==
    UNCHANGED <<is_monitoring, thresholds, health_metrics, issues, active_issues,
                resolved_issues, recovery_actions, now, pc, loc, ticks, budget,
                varying, executor, probe, reader, trend_call, optimizer>>

start_prediction ==
    /\ scaler.pc = "idle"
    /\ IF scaler.is_active
       THEN scaler' = [scaler EXCEPT !.pc = "done"]
       ELSE /\ scaler.cycles < ScaleCycles
            /\ scaler' = PredictionCycle([scaler EXCEPT !.is_active = TRUE],
                                         Workloads[scaler.workload].during)
    /\ ScalerFrame

\* asyncio.sleep(self.prediction_interval) returns: the while test, then a
\* cycle or the finally clause.
ScalerWake ==
    /\ scaler.pc = "sleep"
    /\ IF ~scaler.is_active
       THEN scaler' = [scaler EXCEPT !.pc = "done"]
       ELSE /\ scaler.cycles < ScaleCycles
            /\ scaler' = PredictionCycle(scaler, Workloads[scaler.workload].during)
    /\ ScalerFrame

\* _simulate_scaling_execution returns success or failure.
ScalingExecuted ==
    /\ scaler.pc = "scaling"
    /\ \E success \in BOOLEAN :
          /\ ~success => scaler.failures < MaxFailures
          /\ scaler' = execute_scaling_action(
                          [scaler EXCEPT !.failures = IF success THEN @ ELSE @ + 1],
                          Head(scaler.pending), success)
    /\ ScalerFrame

\* _monitor_scaling_impact: after its sleep the impact is written into the
\* recorded action; then the loop over the predictions goes on.
MonitoringDone ==
    /\ scaler.pc = "monitoring"
    /\ LET post_scaling_pattern == Workloads[scaler.workload].during
           performance_impact ==
               ((baseline_response_time - post_scaling_pattern.response_time) * Unit)
                   \div baseline_response_time
           last == Len(scaler.scaling_history)
       IN  scaler' = NextPrediction(
                        [scaler EXCEPT
                            !.scaling_history[last].performance_impact = performance_impact,
                            !.pending = Tail(@)])
    /\ ScalerFrame

stop_prediction ==
    /\ scaler' = [scaler EXCEPT !.is_active = FALSE]
    /\ ScalerFrame

\* The objects this run does not use stay as constructed.
OthersConstructed ==
    /\ reader = NoReader
    /\ trend_call = NoTrendCall
    /\ optimizer = OptimizerConstructed
    /\ scaler = ScalerConstructed

----------------------------------------------------------------------------
(* Initial states *)

\* The object as __init__ leaves it.
Constructed ==
    /\ is_monitoring = FALSE
    /\ thresholds = health_thresholds
    /\ health_metrics = [m \in MetricNames |-> <<>>]
    /\ issues = <<>>
    /\ active_issues = <<>>
    /\ resolved_issues = <<>>
    /\ recovery_actions = <<>>
    /\ now = 0
    /\ pc = [l \in Loops |-> "idle"]
    /\ loc = [l \in Loops |-> NoLocals]
    /\ ticks = 0

\* The object after coroutine 1 ran n ticks on steady samples.
SteadyState(n) ==
    /\ is_monitoring = TRUE
    /\ thresholds = health_thresholds
    /\ health_metrics =
         [m \in MetricNames |->
            LET all == [k \in 1..n |-> HealthMetric(m, BaseValue[m], (k - 1) * monitoring_interval,
                                          health_thresholds)]
            IN  LastK(all, HistoryCap)]
    /\ issues = <<>>
    /\ active_issues = <<>>
    /\ resolved_issues = <<>>
    /\ recovery_actions = <<>>
    /\ now = (n - 1) * monitoring_interval
    /\ pc = [l \in Loops |-> IF l = 1 THEN "sleep" ELSE "idle"]
    /\ loc = [l \in Loops |->
                IF l = 1 THEN [NoLocals EXCEPT !.slept_at = (n - 1) * monitoring_interval]
                ELSE NoLocals]
    /\ ticks = n

\* The executors that differ in what a handling pass can see of them: a pass
\* stops at the first success, so the positions after it are never called.
Executors ==
    {e \in [1..NumPositions -> Outcomes] :
        \A p, q \in 1..NumPositions : (p < q /\ e[p] = "ok") => e[q] = "ok"}

\* No direct call of _determine_health_status is made in this run.
NoProbe == [name |-> "none", table |-> 0, value1 |-> 0, value2 |-> 0,
            status1 |-> "unset", status2 |-> "unset"]

\* Direct calls of _determine_health_status: a metric of the table or a name
\* it lacks, the default table or one a configuration changed (the loader
\* does not order warning and critical), two values around the thresholds.
ProbeNames == MetricNames \cup {"unknown_metric"}

ProbeTables ==
    <<health_thresholds,
      load_config(health_thresholds, [disk_usage |-> [warning |-> 90, critical |-> 80]])>>

ProbeValues(name, table) ==
    IF name \in DOMAIN table
    THEN {table[name].warning + d : d \in {-1, 0, 1}}
         \cup {table[name].critical + d : d \in {-1, 0, 1}}
    ELSE {0, 100, 10000}

Probes ==
    UNION {{[name |-> n, table |-> k, value1 |-> a, value2 |-> b,
             status1 |-> "unset", status2 |-> "unset"] :
                a \in ProbeValues(n, ProbeTables[k]), b \in ProbeValues(n, ProbeTables[k])} :
           n \in ProbeNames, k \in 1..Len(ProbeTables)}

\* The two calls are made and their results kept.
CallDetermineHealthStatus ==
    /\ probe.table # 0
    /\ probe.status1 = "unset"
    /\ probe' = [probe EXCEPT
                    !.status1 = determine_health_status(probe.name, probe.value1,
                                                        ProbeTables[probe.table]),
                    !.status2 = determine_health_status(probe.name, probe.value2,
                                                        ProbeTables[probe.table])]
    /\ UNCHANGED <<is_monitoring, thresholds, health_metrics, issues, active_issues,
                   resolved_issues, recovery_actions, now, pc, loc, ticks, budget,
                   varying, executor, reader, trend_call, optimizer, scaler>>

\* A run starts at construction, or (the memory rule needs ten samples) after
\* WarmTicks steady ticks with the memory samples about to vary.
Init ==
    /\ \/ Constructed /\ varying \in DOMAIN VaryingValues
       \/ SteadyState(WarmTicks) /\ varying = "memory_usage"
    /\ budget = MaxTicks
    /\ executor \in Executors
    /\ probe = NoProbe
    /\ OthersConstructed

Next ==
    \/ start_monitoring(1)
    \/ Wake(1)
    \/ ExecDone(1)
    \/ stop_monitoring

Spec == Init /\ [][Next]_vars

----------------------------------------------------------------------------
(* A long run on steady samples: no issue is ever detected, the metric     *)
(* histories fill up and overflow.                                         *)

InitRing ==
    /\ Constructed
    /\ budget = RingTicks
    /\ varying = "none"
    /\ executor = [p \in 1..NumPositions |-> "fail"]
    /\ probe = NoProbe
    /\ OthersConstructed

NextRing ==
    \/ start_monitoring(1)
    \/ Wake(1)
    \/ stop_monitoring

SpecRing == InitRing /\ [][NextRing]_vars

----------------------------------------------------------------------------
(* The end-to-end memory scenario: from construction, the memory samples    *)
(* climb by five per tick (60, 65, 70, ... or 40, 45, 50, ...).             *)

InitRamp ==
    /\ Constructed
    /\ budget = RampTicks
    /\ varying \in DOMAIN RampStart
    /\ executor \in Executors
    /\ probe = NoProbe
    /\ OthersConstructed

SpecRamp == InitRamp /\ [][Next]_vars

----------------------------------------------------------------------------
(* The status classification: direct calls of _determine_health_status, and *)
(* a short run of the loop that stores classified samples (disk varying).   *)

InitStatus ==
    /\ Constructed
    /\ budget = StatusTicks
    /\ varying = "disk_usage"
    /\ executor = [p \in 1..NumPositions |-> "ok"]
    /\ probe \in Probes
    /\ OthersConstructed

NextStatus ==
    \/ CallDetermineHealthStatus
    \/ Next

SpecStatus == InitStatus /\ [][NextStatus]_vars

----------------------------------------------------------------------------
(* The loop under the asyncio scheduler: a coroutine whose sleep is over or *)
(* whose awaited call has returned is resumed.                              *)

InitStop ==
    /\ Constructed
    /\ budget = StopTicks
    /\ varying = "disk_usage"
    /\ executor \in {e \in Executors : e[2] = e[3] /\ e[3] = e[4]}
    /\ probe = NoProbe
    /\ OthersConstructed

\* The steps of the loop once the flag is down; the scheduler owes the loop
\* no more than these for it to stop.
ResumeStopped == ~is_monitoring /\ (Wake(1) \/ ExecDone(1))

SpecStop == InitStop /\ [][Next]_vars /\ WF_vars(ResumeStopped)

----------------------------------------------------------------------------
(* Callers that call start_monitoring() more than once: every call is a     *)
(* coroutine of its own on the one object.                                  *)

InitTwo ==
    /\ Constructed
    /\ budget = TwoTicks
    /\ varying = "disk_usage"
    /\ executor \in {e \in Executors :
                        /\ e[1] # "raise"
                        /\ e[2] # "fail" /\ e[2] = e[3] /\ e[3] = e[4]}
    /\ probe = NoProbe
    /\ OthersConstructed

NextTwo ==
    \/ \E l \in Loops : start_monitoring(l)
    \/ \E l \in Loops : Wake(l)
    \/ \E l \in Loops : ExecDone(l)
    \/ stop_monitoring

SpecTwo == InitTwo /\ [][NextTwo]_vars

----------------------------------------------------------------------------
(* Failing collaborators.  SpecSource: a metric source whose cpu sampling   *)
(* may raise.  SpecConfig: a configuration file loaded by initialize(),     *)
(* before the loop starts or while it runs.  SpecFaults: both, with         *)
(* executors that raise.                                                    *)

FaultExecutors ==
    {e \in Executors : e[2] = e[3] /\ e[3] = e[4]}

InitSource ==
    /\ Constructed
    /\ budget = FaultTicks
    /\ varying = "unreliable_source"
    /\ executor \in FaultExecutors
    /\ probe = NoProbe
    /\ OthersConstructed

SpecSource == InitSource /\ [][Next]_vars

InitConfig ==
    /\ Constructed
    /\ budget = FaultTicks
    /\ varying = "disk_usage"
    /\ executor \in FaultExecutors
    /\ probe = NoProbe
    /\ OthersConstructed

NextConfig ==
    \/ initialize
    \/ Next

SpecConfig == InitConfig /\ [][NextConfig]_vars

InitFaults ==
    /\ Constructed
    /\ budget = FaultTicks
    /\ varying \in {"unreliable_source", "disk_usage"}
    /\ executor \in FaultExecutors
    /\ probe = NoProbe
    /\ OthersConstructed

SpecFaults == InitFaults /\ [][NextConfig]_vars

----------------------------------------------------------------------------
(* Continuous operation.  On every tick the disk sample is 96 and the first *)
(* strategy succeeds: the tick creates one disk_space_low issue, records    *)
(* one action and retires the issue.  ChurnState(n) is the object after n   *)
(* such ticks of coroutine 1; a run of SpecChurn starts at construction or  *)
(* after FarTicks of them.                                                  *)

ChurnSample == [m \in MetricNames |-> IF m = "disk_usage" THEN 96 ELSE BaseValue[m]]

ChurnState(n) ==
    /\ is_monitoring = TRUE
    /\ thresholds = health_thresholds
    /\ health_metrics =
         [m \in MetricNames |->
            [j \in 1..(IF n < HistoryCap THEN n ELSE HistoryCap) |->
                HealthMetric(m, ChurnSample[m],
                             (n - (IF n < HistoryCap THEN n ELSE HistoryCap) + j - 1)
                                * monitoring_interval,
                             health_thresholds)]]
    /\ issues =
         [k \in 1..n |->
            [SystemIssue("disk_low", "disk_space_low", "critical", (k - 1) * monitoring_interval)
                EXCEPT !.resolution_actions = <<recovery_strategies["disk_space_low"][1]>>,
                       !.auto_resolved = TRUE,
                       !.resolved_at = (k - 1) * monitoring_interval]]
    /\ active_issues = <<>>
    /\ resolved_issues = [k \in 1..n |-> k]
    /\ recovery_actions =
         [k \in 1..n |->
            RecoveryAction(recovery_strategies["disk_space_low"][1],
                           [issue_type |-> "disk_space_low"],
                           (k - 1) * monitoring_interval, TRUE)]
    /\ now = (n - 1) * monitoring_interval
    /\ pc = [l \in Loops |-> IF l = 1 THEN "sleep" ELSE "idle"]
    /\ loc = [l \in Loops |->
                IF l = 1 THEN [NoLocals EXCEPT !.slept_at = (n - 1) * monitoring_interval]
                ELSE NoLocals]
    /\ ticks = n

InitChurn ==
    /\ Constructed \/ ChurnState(FarTicks)
    /\ budget = ChurnTicks
    /\ varying = "disk_usage"
    /\ executor \in Executors
    /\ probe = NoProbe
    /\ OthersConstructed

SpecChurn == InitChurn /\ [][Next]_vars

\* ChurnState is what the code computes: whenever coroutine 1 sleeps after
\* ticks that all sampled disk_usage = 96 and resolved their issue with the
\* first strategy, the state is ChurnState(ticks).
ChurnClosedForm ==
    ( /\ pc[1] = "sleep"
      /\ is_monitoring
      /\ ticks >= 1
      /\ executor[1] = "ok"
      /\ \A j \in 1..Len(health_metrics["disk_usage"]) :
            health_metrics["disk_usage"][j].value = 96
      /\ Len(issues) = ticks )
    => ChurnState(ticks)

----------------------------------------------------------------------------
(* Vocabulary of the properties *)

ActiveRefs == DictRefs(active_issues)

ResolvedRefs == {resolved_issues[k] : k \in 1..Len(resolved_issues)}

DetectableTypes == {"performance_degradation", "memory_leak", "disk_space_low",
                    "service_unresponsive"}

\* The resolution condition of an issue type on metric histories hm, as the
\* specification words it: the latest memory, disk or error-rate sample is
\* below the metric's warning threshold; for response time, the mean of the
\* (up to) three latest samples is.
LatestBelowWarning(hm, name) ==
    /\ Len(hm[name]) > 0
    /\ hm[name][Len(hm[name])].value < health_thresholds[name].warning

ResolutionCondition(issue_type, hm) ==
    \/ issue_type = "memory_leak" /\ LatestBelowWarning(hm, "memory_usage")
    \/ issue_type = "disk_space_low" /\ LatestBelowWarning(hm, "disk_usage")
    \/ issue_type = "service_unresponsive" /\ LatestBelowWarning(hm, "error_rate")
    \/ /\ issue_type = "performance_degradation"
       /\ Len(hm["response_time"]) > 0
       /\ LET n == Len(hm["response_time"])
              k == IF n < 3 THEN n ELSE 3
          IN  SumSeq([j \in 1..k |-> hm["response_time"][n - k + j].value])
                < k * health_thresholds["response_time"].warning

\* The issue coroutine 1 is executing a strategy for.
HandledRef == loc[1].new_issues[loc[1].i]

\* This step is the return of one strategy execution of coroutine 1.
AttemptCompleted == pc[1] = "exec" /\ (pc'[1] # "exec" \/ loc'[1] # loc[1])

\* This step ends a tick of coroutine 1: _check_recovery_progress has run and
\* the coroutine sleeps.
TickEnds == pc'[1] = "sleep" /\ (pc[1] = "exec" \/ ticks' = ticks + 1)

----------------------------------------------------------------------------
(* C1 *)

\* C1 (idempotent detection): at every point in time the active-issue map
\* holds at most one unresolved issue of each issue type.
C1_OneActiveIssuePerType ==
    \A a, b \in ActiveRefs :
        ( /\ issues[a].resolved_at = None
          /\ issues[b].resolved_at = None
          /\ issues[a].issue_type = issues[b].issue_type ) => a = b

----------------------------------------------------------------------------
(* C2 *)

\* C2 as stated: resolved_at is set, and an issue enters the resolved history,
\* only in a step whose latest metrics satisfy the issue type's resolution
\* condition; a successful recovery action alone does not resolve the issue.
C2_ResolvedOnlyByMetrics ==
    [][\A r \in DOMAIN issues :
          ( \/ issues[r].resolved_at = None /\ issues'[r].resolved_at # None
            \/ r \notin ResolvedRefs /\ r \in ResolvedRefs' )
          => ResolutionCondition(issues[r].issue_type, health_metrics')]_vars

\* C2 as amended: resolved_at is set only in a step in which a recovery
\* strategy of the issue has succeeded or whose latest metrics satisfy the
\* resolution condition; an issue enters the resolved history only with
\* resolved_at set and for one of these two reasons; auto_resolved is set
\* exactly when resolved_at is.
C2_ResolvedByActionOrMetrics ==
    [][\A r \in DOMAIN issues :
          /\ (issues[r].resolved_at = None /\ issues'[r].resolved_at # None)
               => \/ issues'[r].resolution_actions # <<>>
                  \/ ResolutionCondition(issues[r].issue_type, health_metrics')
          /\ (r \notin ResolvedRefs /\ r \in ResolvedRefs')
               => /\ issues'[r].resolved_at # None
                  /\ \/ issues'[r].resolution_actions # <<>>
                     \/ ResolutionCondition(issues[r].issue_type, health_metrics')
          /\ issues'[r].auto_resolved <=> issues'[r].resolved_at # None]_vars

\* An issue closed by a successful strategy while its metric still violates
\* the resolution condition.
C2_Witness ==
    \E r \in ResolvedRefs :
        /\ issues[r].resolution_actions # <<>>
        /\ issues[r].resolved_at = now
        /\ ~ResolutionCondition(issues[r].issue_type, health_metrics)

----------------------------------------------------------------------------
(* C3 *)

\* C3 (verification closes an issue): at the end of a tick, every issue of a
\* detectable type that was active and whose resolution condition holds on the
\* tick's metrics has resolved_at set and auto_resolved true, is out of the
\* active map and is in the resolved history.
C3_VerificationClosesIssue ==
    [][TickEnds =>
          \A r \in ActiveRefs :
              ( /\ issues[r].issue_type \in DetectableTypes
                /\ ResolutionCondition(issues[r].issue_type, health_metrics') )
              => /\ issues'[r].resolved_at # None
                 /\ issues'[r].auto_resolved
                 /\ r \notin ActiveRefs'
                 /\ r \in ResolvedRefs']_vars

\* A memory-leak issue no strategy resolved, closed by verification.
C3_Witness ==
    \E r \in ResolvedRefs :
        /\ issues[r].issue_type = "memory_leak"
        /\ issues[r].resolution_actions = <<>>
        /\ issues[r].resolved_at # None
        /\ issues[r].resolved_at > issues[r].detected_at

----------------------------------------------------------------------------
(* C4 *)

\* C4 (recovery ordering): when the strategy at position k of an issue's list
\* is the first to succeed, exactly k RecoveryAction records have been added
\* for the issue, in list order: k-1 failures, then the success.
C4_FirstSuccessAtKAddsKRecords ==
    [][( /\ AttemptCompleted
         /\ issues'[HandledRef].resolution_actions # <<>> )
       => LET k == loc[1].s
              strategies == StrategiesFor(issues[HandledRef].issue_type)
              n == Len(recovery_actions')
          IN  /\ n >= k
              /\ \A j \in 1..k :
                    /\ recovery_actions'[n - k + j].action_type = strategies[j]
                    /\ recovery_actions'[n - k + j].description = issues[HandledRef].issue_type
                    /\ recovery_actions'[n - k + j].success = (j = k)]_vars

----------------------------------------------------------------------------
(* C5 *)

\* C5: an unresolved active issue whose handling is over (every strategy
\* failed) stays in the active map with resolved_at unset across every step
\* whose metrics do not satisfy its resolution condition, and the health
\* report of the resulting state lists it among active_issues.
C5_UnrecoveredIssueStaysActive ==
    [][\A k \in 1..Len(active_issues) :
          LET r == active_issues[k].ref
          IN  ( /\ issues[r].resolved_at = None
                /\ ~(pc[1] = "exec" /\ HandledRef = r)
                /\ ~ResolutionCondition(issues[r].issue_type, health_metrics') )
              => /\ r \in ActiveRefs'
                 /\ issues'[r].resolved_at = None
                 /\ \E j \in 1..Len(get_health_report'.active_issues) :
                       get_health_report'.active_issues[j].issue_id = issues[r].issue_id
                 /\ get_health_report'.system_status.active_issues >= 1]_vars

\* An issue all of whose strategies failed, still active a tick later.
C5_Witness ==
    \E r \in ActiveRefs :
        /\ pc[1] = "sleep"
        /\ issues[r].resolved_at = None
        /\ issues[r].detected_at < now
        /\ \E j \in 1..Len(get_health_report.active_issues) :
              get_health_report.active_issues[j].issue_id = issues[r].issue_id

----------------------------------------------------------------------------
(* C6 *)

\* C6: every attempted strategy adds exactly one RecoveryAction record,
\* whether it succeeded, failed or raised.
C6_EveryAttemptRecorded ==
    [][AttemptCompleted => Len(recovery_actions') = Len(recovery_actions) + 1]_vars

----------------------------------------------------------------------------
(* C7 *)

\* C7: when executing a strategy raises, the attempt counts as failed: the
\* raising strategy does not mark the issue resolved, the next strategy of the
\* list is attempted in the same pass, and after the last strategy the tick
\* goes on (to the next issue, or through verification to the sleep).
C7_RaiseIsAFailedAttempt ==
    [][( /\ AttemptCompleted
         /\ executor[loc[1].s] = "raise" )
       => LET r == HandledRef
              strategies == StrategiesFor(issues[r].issue_type)
          IN  /\ issues'[r].resolution_actions = issues[r].resolution_actions
              /\ issues'[r].resolved_at # None
                   => ResolutionCondition(issues[r].issue_type, health_metrics')
              /\ loc[1].s < Len(strategies)
                   => /\ pc'[1] = "exec"
                      /\ loc'[1].i = loc[1].i
                      /\ loc'[1].s = loc[1].s + 1
                      /\ issues'[r].resolved_at = None
              /\ loc[1].s = Len(strategies)
                   => \/ pc'[1] = "exec" /\ loc'[1].i = loc[1].i + 1 /\ loc'[1].s = 1
                      \/ /\ pc'[1] = "sleep"
                         /\ \A a \in ActiveRefs' :
                               ~ResolutionCondition(issues'[a].issue_type, health_metrics')]_vars

\* A strategy is being executed right after the one before it raised.
C7_Witness ==
    /\ pc[1] = "exec"
    /\ loc[1].s >= 2
    /\ executor[loc[1].s - 1] = "raise"

----------------------------------------------------------------------------
(* C8 *)

\* C8 (ring-buffer bound): each metric's history holds at most 100 samples:
\* all the samples recorded so far while there are at most 100, and otherwise
\* exactly the 100 most recently recorded, in recording order.  (Under
\* SpecRing the k-th recorded sample carries the timestamp 30(k-1).)
C8_HistoryKeepsLatest100 ==
    \A m \in MetricNames :
        LET h == health_metrics[m]
        IN  /\ Len(h) <= 100
            /\ Len(h) = (IF ticks <= 100 THEN ticks ELSE 100)
            /\ \A j \in 1..Len(h) :
                  /\ h[j].timestamp = (ticks - Len(h) + j - 1) * 30
                  /\ h[j].value = BaseValue[m]

\* More than 100 samples have been recorded.
C8_Witness ==
    /\ ticks > 100
    /\ \A m \in MetricNames : Len(health_metrics[m]) = 100

----------------------------------------------------------------------------
(* C9 *)

\* C9: the resolved-issue history never holds more than M = 1000 issues.
C9_ResolvedHistoryBounded == Len(resolved_issues) <= 1000

----------------------------------------------------------------------------
(* C10 *)

\* C10: the recovery-action history never exceeds a fixed capacity; stated
\* for the largest capacity the specification names, 1000 records.
C10_ActionHistoryBounded == Len(recovery_actions) <= 1000

----------------------------------------------------------------------------
(* C11 *)

\* This step begins a tick of coroutine 1 (collection and detection are in it).
TickBegins == ticks' = ticks + 1

\* The issues this step created.
CreatedRefs == DOMAIN issues' \ DOMAIN issues

\* The least-squares slope of the last ten samples y[0..9] of h exceeds 2:
\* Sum (i - 4.5) y[i] / 82.5 > 2, that is Sum (2i - 9) y[i] > 330.
SlopeOfLastTenAboveTwo(h) ==
    /\ Len(h) >= 10
    /\ SumSeq([j \in 1..10 |-> (2 * (j - 1) - 9) * h[Len(h) - 10 + j].value]) > 330

\* C11 as stated (end-to-end memory scenario): with warning = 80 and
\* critical = 95, the samples 60, 65, 70, 75, 80, 85 fed on six consecutive
\* ticks from an empty history create no memory-leak issue on ticks 1-5 and
\* create one with severity warning on tick 6.
C11_LeakDetectedOnSixthTick ==
    varying = "memory_ramp_60" =>
        /\ ticks <= 5 => \A r \in DOMAIN issues : issues[r].issue_type # "memory_leak"
        /\ ticks >= 6 =>
              \E r \in DOMAIN issues :
                 /\ issues[r].issue_type = "memory_leak"
                 /\ issues[r].severity = "warning"
                 /\ issues[r].detected_at = 5 * monitoring_interval

\* C11 as amended: a tick creates a memory-leak issue exactly when the
\* memory history holds at least ten samples, the slope of the last ten
\* exceeds 2.0 and the latest sample exceeds the warning threshold (80); the
\* issue's severity is critical when the latest sample exceeds the critical
\* threshold (95) and warning otherwise.  In particular no memory-leak issue
\* is created on any of the first nine ticks after an empty history.
C11_LeakNeedsTenSamples ==
    [][TickBegins =>
          LET h == health_metrics'["memory_usage"]
              latest == h[Len(h)].value
              created == {r \in CreatedRefs : issues'[r].issue_type = "memory_leak"}
          IN  /\ Cardinality(created) <= 1
              /\ created # {} <=> (SlopeOfLastTenAboveTwo(h) /\ latest > 80)
              /\ \A r \in created :
                    issues'[r].severity = (IF latest > 95 THEN "critical" ELSE "warning")
              /\ ticks' <= 9 => created = {}]_vars

\* A memory-leak issue of severity warning, created on the tenth tick of the
\* climb 40, 45, ..., 85.
C11_Witness ==
    \E r \in DOMAIN issues :
        /\ issues[r].issue_type = "memory_leak"
        /\ issues[r].severity = "warning"
        /\ issues[r].detected_at = 9 * monitoring_interval
        /\ Len(health_metrics["memory_usage"]) = 10

----------------------------------------------------------------------------
(* C12 *)

\* C12 (disk rule): on every tick whose disk_usage sample exceeds the warning
\* threshold (85) while no disk_space_low issue is active, the tick creates a
\* disk_space_low issue, whatever the length of the history; its severity is
\* critical when the sample exceeds the critical threshold (95) and warning
\* otherwise.
C12_DiskRuleCreatesIssue ==
    [][TickBegins =>
          LET h == health_metrics'["disk_usage"]
              latest == h[Len(h)].value
          IN  ( /\ Len(h) >= 1
                /\ h[Len(h)].timestamp = now'
                /\ latest > 85
                /\ \A a \in ActiveRefs : issues[a].issue_type # "disk_space_low" )
              => \E r \in CreatedRefs :
                    /\ issues'[r].issue_type = "disk_space_low"
                    /\ issues'[r].detected_at = now'
                    /\ issues'[r].severity =
                          (IF latest > 95 THEN "critical" ELSE "warning")]_vars

\* The single sample disk_usage = 96 has yielded a critical disk_space_low issue.
C12_Witness ==
    /\ Len(health_metrics["disk_usage"]) = 1
    /\ health_metrics["disk_usage"][1].value = 96
    /\ \E r \in DOMAIN issues :
          /\ issues[r].issue_type = "disk_space_low"
          /\ issues[r].severity = "critical"

----------------------------------------------------------------------------
(* C13 *)

\* The metric each detection rule reads.
RuleMetric ==
    [performance_degradation |-> "response_time",
     memory_leak             |-> "memory_usage",
     disk_space_low          |-> "disk_usage",
     service_unresponsive    |-> "error_rate"]

LatestValue(hm, name) == hm[name][Len(hm[name])].value

\* C13 as stated: every issue a detection rule creates has severity critical
\* if and only if the latest value of the rule's metric exceeds the metric's
\* critical threshold, and warning otherwise.
C13_SeverityFollowsLatestValue ==
    [][TickBegins =>
          \A r \in CreatedRefs :
              LET name == RuleMetric[issues'[r].issue_type]
              IN  issues'[r].severity =
                    (IF LatestValue(health_metrics', name) > health_thresholds[name].critical
                     THEN "critical" ELSE "warning")]_vars

\* C13 as amended: a memory-leak, disk-space-low or service-unresponsive
\* issue has severity critical if and only if the latest value of its metric
\* exceeds the critical threshold, and warning otherwise; a
\* performance-degradation issue, created when the mean of the (up to) five
\* latest response times exceeds the critical threshold, always has severity
\* critical, whatever the latest response time is.
C13_SeverityFollowsRuleMeasure ==
    [][TickBegins =>
          \A r \in CreatedRefs :
              LET name == RuleMetric[issues'[r].issue_type]
              IN  issues'[r].severity =
                    (IF \/ issues'[r].issue_type = "performance_degradation"
                        \/ LatestValue(health_metrics', name) > health_thresholds[name].critical
                     THEN "critical" ELSE "warning")]_vars

\* A critical performance-degradation issue created on a tick whose own
\* response-time sample was below the warning threshold.
C13_Witness ==
    \E r \in DOMAIN issues :
        /\ issues[r].issue_type = "performance_degradation"
        /\ issues[r].severity = "critical"
        /\ \E j \in 1..Len(health_metrics["response_time"]) :
              /\ health_metrics["response_time"][j].timestamp = issues[r].detected_at
              /\ health_metrics["response_time"][j].value < 1000

----------------------------------------------------------------------------
(* C14 *)

\* Healthy < Warning < Critical
SeverityRank == [healthy |-> 0, warning |-> 1, critical |-> 2]

ProbeDone == probe.status1 # "unset"

\* C14 (threshold monotonicity): for every metric name and every two values
\* v1 < v2, the status of v1 is no more severe than the status of v2.
C14_StatusIsMonotone ==
    (ProbeDone /\ probe.value1 < probe.value2)
        => SeverityRank[probe.status1] <= SeverityRank[probe.status2]

\* Two values of one metric classified warning and critical.
C14_Witness ==
    /\ ProbeDone
    /\ probe.value1 < probe.value2
    /\ probe.status1 = "warning"
    /\ probe.status2 = "critical"

----------------------------------------------------------------------------
(* C15 *)

\* The classification the claim words, for the value x of metric name under
\* the threshold table T.
Classified(name, x, T, status) ==
    IF name \notin DOMAIN T
    THEN status = "healthy"
    ELSE /\ x >= T[name].critical => status = "critical"
         /\ (T[name].warning <= x /\ x < T[name].critical) => status = "warning"
         /\ (x < T[name].warning /\ x < T[name].critical) => status = "healthy"
         /\ status \in {"healthy", "warning", "critical"}

\* C15 (status classification): critical when value >= critical, warning when
\* warning <= value < critical, healthy otherwise; a metric whose name the
\* table lacks is healthy; the status stored with every recorded sample is
\* this classification of the sample's own value.
C15_StatusClassification ==
    /\ ProbeDone =>
          /\ Classified(probe.name, probe.value1, ProbeTables[probe.table], probe.status1)
          /\ Classified(probe.name, probe.value2, ProbeTables[probe.table], probe.status2)
    /\ \A m \in MetricNames : \A j \in 1..Len(health_metrics[m]) :
          Classified(m, health_metrics[m][j].value, health_thresholds,
                     health_metrics[m][j].status)

\* A name the table lacks has been classified healthy (for the value 10000),
\* and a disk sample of 96 is stored as critical.
C15_Witness ==
    /\ ProbeDone
    /\ probe.name = "unknown_metric"
    /\ probe.value1 = 10000
    /\ probe.status1 = "healthy"
    /\ Len(health_metrics["disk_usage"]) = 1
    /\ health_metrics["disk_usage"][1].value = 96
    /\ health_metrics["disk_usage"][1].status = "critical"

----------------------------------------------------------------------------
(* C16 *)

\* The loop of coroutine 1 is between its start and its exit.
Running == pc[1] \in {"exec", "sleep"}

\* stop_monitoring() has been called on a running loop.
Stopping == Running /\ ~is_monitoring

\* C16 (cooperative stop): once stop_monitoring() has been called on the
\* running loop, the tick in progress goes on to its sleep, no new tick
\* begins, and the loop eventually exits with is_monitoring false: it does so
\* in the step that ends the sleep.
C16_CooperativeStop ==
    /\ [][Stopping =>
             /\ ticks' = ticks
             /\ is_monitoring' = FALSE
             /\ pc[1] = "exec" => pc'[1] \in {"exec", "sleep"}
             /\ pc[1] = "sleep" => pc'[1] \in {"sleep", "done"}
             /\ (pc[1] = "sleep" /\ now' # now) => pc'[1] = "done"]_vars
    /\ Stopping ~> (pc[1] = "done" /\ ~is_monitoring)

\* The loop has exited after a stop that came while a strategy was executing.
C16_Witness ==
    /\ pc[1] = "done"
    /\ ~is_monitoring
    /\ ticks >= 1
    /\ recovery_actions # <<>>
    /\ budget > 0

----------------------------------------------------------------------------
(* C17 *)

\* The coroutines that are inside the while loop of start_monitoring.
RunningLoops == {l \in Loops : pc[l] \in {"exec", "sleep"}}

\* C17 (single control loop): under any interleaving of start_monitoring()
\* and stop_monitoring() calls, at most one tick loop is executing ticks on
\* the object at any time.
C17_SingleControlLoop == Cardinality(RunningLoops) <= 1

----------------------------------------------------------------------------
(* C18 *)

\* Some tick so far recorded nothing: its collection raised.
CollectionHasFailed == Len(health_metrics["cpu_usage"]) < ticks

\* C18: the loop leaves the running state only after stop_monitoring() has
\* been called: the flag goes down only in a step that is that call (nothing
\* else changes), the loop exits only with the flag down, and whatever
\* collection, detection, a strategy or verification raised, a loop resumed
\* with the flag up goes on: the end of a sleep begins the following tick,
\* the end of a strategy leads to the next strategy, the next issue or the
\* sleep.
C18_OnlyStopEndsLoop ==
    [][/\ (Running /\ pc'[1] = "done") => ~is_monitoring
       /\ (is_monitoring /\ ~is_monitoring')
            => /\ pc' = pc /\ loc' = loc /\ ticks' = ticks
               /\ health_metrics' = health_metrics /\ issues' = issues
               /\ active_issues' = active_issues /\ resolved_issues' = resolved_issues
               /\ recovery_actions' = recovery_actions
       /\ (is_monitoring /\ pc[1] = "sleep" /\ (pc'[1] # "sleep" \/ loc'[1] # loc[1]))
            => ticks' = ticks + 1 /\ pc'[1] \in {"exec", "sleep"}
       /\ (is_monitoring /\ pc[1] = "exec" /\ (pc'[1] # "exec" \/ loc'[1] # loc[1]))
            => ticks' = ticks /\ pc'[1] \in {"exec", "sleep"}]_vars

\* The loop sleeps after its second tick with the flag up, although a
\* strategy raised on the first tick and, on the second, the collection
\* raised, the detection raised and the verification of the active issue
\* raised (the source is reliable; the disk entry of the table lost its
\* 'warning' value before the second tick).
C18_Witness ==
    /\ is_monitoring
    /\ pc[1] = "sleep"
    /\ ticks >= 2
    /\ executor[1] = "raise"
    /\ varying = "disk_usage"
    /\ Len(health_metrics["disk_usage"]) = 1
    /\ CollectionHasFailed
    /\ DetectRaises(health_metrics, thresholds)
    /\ \E a \in ActiveRefs :
          /\ issues[a].issue_type = "disk_space_low"
          /\ issues[a].resolved_at = None
          /\ "warning" \notin DOMAIN thresholds["disk_usage"]

----------------------------------------------------------------------------
(* C19 *)

\* C19 (per-metric collection isolation): every tick records a sample (the
\* sampled value, or a fallback if the sampling failed) into the history of
\* every metric; no tick records nothing.
C19_EveryMetricRecordedEachTick ==
    [][TickBegins =>
          \A m \in MetricNames :
              /\ Len(health_metrics'[m]) = Len(health_metrics[m]) + 1
              /\ health_metrics'[m][Len(health_metrics'[m])].timestamp = now']_vars

----------------------------------------------------------------------------
(* C20 *)

\* The entry of metric m in table T has both of its values.
ValidEntry(T, m) == {"warning", "critical"} \subseteq DOMAIN T[m]

\* C20 (configuration errors fall back to defaults): whatever configuration
\* initialize() loaded, every metric's entry in effect is a usable one (the
\* default where the configured entry lacks 'warning' or 'critical'), and
\* every tick records a sample of every metric with its status under the
\* table in effect.
C20_InvalidConfigFallsBack ==
    [][/\ \A m \in MetricNames : ValidEntry(thresholds', m)
       /\ TickBegins =>
             \A m \in MetricNames :
                 /\ Len(health_metrics'[m]) = Len(health_metrics[m]) + 1
                 /\ LET latest == health_metrics'[m][Len(health_metrics'[m])]
                    IN  /\ latest.timestamp = now'
                        /\ Classified(m, latest.value, thresholds', latest.status)]_vars

----------------------------------------------------------------------------
(* C21 *)

\* One call of get_health_report from another thread, at any moment of a run
\* whose disk samples vary.
InitReport ==
    /\ Constructed
    /\ budget = ReportTicks
    /\ varying = "disk_usage"
    /\ executor \in {e \in Executors : e[2] = e[3] /\ e[3] = e[4]}
    /\ probe = NoProbe
    /\ OthersConstructed

NextReport ==
    \/ Next
    \/ ReportEnter
    \/ ReportIter
    \/ ReportNext

SpecReport == InitReport /\ [][NextReport]_vars

\* C21 (reporting is safe for concurrent callers): a get_health_report() call
\* made from another thread while a tick inserts or retires issues returns a
\* report, never an error result, and the active-issue count of the report
\* equals the number of active issues it lists.
C21_ReportSafeForConcurrentCallers ==
    reader.pc = "done" =>
        /\ reader.result = "report"
        /\ reader.count = reader.listed

----------------------------------------------------------------------------
(* C22 *)

\* C22 (issue identifiers are unique): over any sequence of ticks and any
\* timing of them, no two SystemIssue objects ever created, active or in the
\* resolved history, carry the same issue_id.
C22_IssueIdsUnique ==
    \A a, b \in DOMAIN issues : a # b => issues[a].issue_id # issues[b].issue_id

----------------------------------------------------------------------------
(* C23 *)

\* The series a, a + d, ..., of n terms.
ArithmeticSeries(a, d, n) == [i \in 1..n |-> a + (i - 1) * d]

\* Direct calls of _calculate_trend: every series of up to MaxSeriesLen
\* readings, and arithmetic series of two and more terms.
SeriesValues == {10, 20, 30}

TrendSeries ==
    UNION {[1..n -> SeriesValues] : n \in 0..MaxSeriesLen}
    \cup {ArithmeticSeries(a, d, n) :
            a \in {10, 96}, d \in {-7, 0, 3, 10}, n \in 2..(MaxSeriesLen + 1)}

InitTrend ==
    /\ Constructed
    /\ budget = 0
    /\ varying = "disk_usage"
    /\ executor = [p \in 1..NumPositions |-> "ok"]
    /\ probe = NoProbe
    /\ reader = NoReader
    /\ optimizer = OptimizerConstructed
    /\ scaler = ScalerConstructed
    /\ trend_call \in {[NoTrendCall EXCEPT !.values = v] : v \in TrendSeries}

NextTrend == CallCalculateTrend

SpecTrend == InitTrend /\ [][NextTrend]_vars

\* Consecutive terms of the series differ by d.
IsArithmetic(values, d) ==
    \A i \in 1..(Len(values) - 1) : values[i + 1] - values[i] = d

\* The ordinary least-squares slope of the points (0, y0), ..., (n-1, y(n-1)):
\* (n Sum(x y) - Sum(x) Sum(y)) / (n Sum(x^2) - Sum(x)^2).
SlopeNum(values) ==
    LET n == Len(values)
    IN  n * SumSeq([i \in 1..n |-> (i - 1) * values[i]])
          - SumSeq([i \in 1..n |-> i - 1]) * SumSeq(values)

SlopeDen(values) ==
    LET n == Len(values)
        sx == SumSeq([i \in 1..n |-> i - 1])
    IN  n * SumSeq([i \in 1..n |-> (i - 1) * (i - 1)]) - sx * sx

----------------------------------------------------------------------------
(* C24 *)

\* The collections every mutation of which, inside a tick, is a statement of
\* a "with self.metrics_lock" block: the metric histories (lines 270-279).
\* self.active_issues[...] = issue (464), self.recovery_actions.append (511),
\* self.active_issues.pop and self.resolved_issues.append (559-562) are not.
MutatedUnderLock == {"health_metrics"}

\* The collections a step changes.
Mutated ==
    (IF health_metrics' # health_metrics THEN {"health_metrics"} ELSE {})
    \cup (IF active_issues' # active_issues THEN {"active_issues"} ELSE {})
    \cup (IF resolved_issues' # resolved_issues THEN {"resolved_issues"} ELSE {})
    \cup (IF recovery_actions' # recovery_actions THEN {"recovery_actions"} ELSE {})

\* C24 (one critical section per tick): every mutation of the active-issue
\* map, the metric histories, the resolved history and the recovery-action
\* history performed during a tick happens while metrics_lock is held.
C24_MutationsHoldTheLock == [][Mutated \subseteq MutatedUnderLock]_vars

----------------------------------------------------------------------------
(* C25 *)

\* The coroutines inside _handle_issue, awaiting a strategy.
ExecutingLoops == {l \in Loops : pc[l] = "exec"}

\* The issue whose strategy coroutine l is executing.
ExecutingRef(l) == loc[l].new_issues[loc[l].i]

\* C25 (execution and verification never race on an issue): under any
\* interleaving of the coroutines, no issue is in the resolved history while
\* a recovery strategy for it is still executing, and no two executions for
\* the same issue overlap.
C25_NoRaceOnAnIssue ==
    /\ \A l \in ExecutingLoops : ExecutingRef(l) \notin ResolvedRefs
    /\ \A l1, l2 \in ExecutingLoops : l1 # l2 => ExecutingRef(l1) # ExecutingRef(l2)

----------------------------------------------------------------------------
(* C26 *)

\* C26 (resolved issues are final): once an issue has been appended to the
\* resolved history, no later operation changes any of its fields
\* (resolved_at, auto_resolved, resolution_actions, severity), and the issue
\* never re-enters the active map.
C26_ResolvedIssuesAreFinal ==
    [][\A ref \in ResolvedRefs :
          /\ issues'[ref] = issues[ref]
          /\ ref \notin DictRefs(active_issues')]_vars

----------------------------------------------------------------------------
(* C28 *)

\* The state at the end of a completed tick of some coroutine: it has run
\* _check_recovery_progress and sleeps.
SomeTickEnds ==
    \E l \in Loops : pc'[l] = "sleep" /\ pc[l] # "sleep"

\* The active map and the resolved history partition the issues correctly.
Partitioned(heap, active, resolved) ==
    /\ \A k \in 1..Len(active) :
          LET issue == heap[active[k].ref]
          IN  /\ issue.resolved_at = None
              /\ ~issue.auto_resolved
              /\ issue.resolution_actions = <<>>
    /\ \A k \in 1..Len(resolved) :
          LET issue == heap[resolved[k]]
          IN  issue.resolved_at # None /\ issue.auto_resolved
    /\ \A k \in 1..Len(active) : \A j \in 1..Len(resolved) : active[k].ref # resolved[j]

\* C28 (partition at the end of a tick): at the end of every completed tick
\* every issue of the active map has resolved_at unset, auto_resolved false
\* and no resolution action; every issue of the resolved history has
\* resolved_at set and auto_resolved true; no issue object is in both.
C28_PartitionAtTickEnd ==
    [][SomeTickEnds => Partitioned(issues', active_issues', resolved_issues')]_vars

\* A tick has ended with one issue retired by verification and a later one,
\* whose strategies all failed, still active.
C28_Witness ==
    /\ pc[1] = "sleep"
    /\ active_issues # <<>>
    /\ resolved_issues # <<>>
    /\ Len(recovery_actions) > 0
    /\ \A k \in 1..Len(recovery_actions) : ~recovery_actions[k].success
    /\ Partitioned(issues, active_issues, resolved_issues)

----------------------------------------------------------------------------
(* C27 *)

\* A run whose response time is either normal or a spike.
InitSpike ==
    /\ Constructed
    /\ budget = SpikeTicks
    /\ varying = "response_spike"
    /\ executor \in {e \in Executors : \A p \in 1..NumPositions : e[p] = e[1]}
    /\ probe = NoProbe
    /\ OthersConstructed

SpecSpike == InitSpike /\ [][Next]_vars

\* The detection rule of an issue type fires on the histories hm.
DetectionCondition(issue_type, hm, table, clock) ==
    CASE issue_type = "performance_degradation" ->
            PerformanceDegradationRule(hm, table, clock) # <<>>
      [] issue_type = "memory_leak" -> MemoryLeakRule(hm, table, clock) # <<>>
      [] issue_type = "disk_space_low" -> DiskSpaceRule(hm, table, clock) # <<>>
      [] issue_type = "service_unresponsive" -> ServiceUnresponsiveRule(hm, table, clock) # <<>>
      [] OTHER -> FALSE

\* The issues the tick that ends in this step has detected.
DetectedThisTick ==
    IF pc[1] = "exec" THEN {loc[1].new_issues[k] : k \in 1..Len(loc[1].new_issues)}
    ELSE CreatedRefs

\* C27 (detection and resolution exclude each other): for each of the four
\* detectable issue types the detection condition and the resolution
\* condition never hold on the same metric histories, and an issue detected
\* on a tick, all of whose strategies failed, is not closed by verification
\* on that same tick.
C27_DetectionExcludesResolution ==
    [][/\ \A t \in DetectableTypes :
             ~(/\ DetectionCondition(t, health_metrics', thresholds', now')
               /\ verify_issue_resolution(t, health_metrics', thresholds'))
       /\ TickEnds =>
             \A ref \in DetectedThisTick :
                 issues'[ref].resolution_actions = <<>> => ref \in DictRefs(active_issues')]_vars

----------------------------------------------------------------------------
(* C29 *)

\* The optimizer alone: from construction, or after OptWarmCycles cycles of a
\* loaded system.
InitOptimizer ==
    /\ Constructed
    /\ budget = 0
    /\ varying = "disk_usage"
    /\ executor = [p \in 1..NumPositions |-> "ok"]
    /\ probe = NoProbe
    /\ reader = NoReader
    /\ trend_call = NoTrendCall
    /\ scaler = ScalerConstructed
    /\ optimizer \in {OptimizerConstructed, OptimizerWarm(OptWarmCycles)}

NextOptimizer ==
    \/ start_optimization
    \/ OptimizerWake
    \/ stop_optimization

SpecOptimizer == InitOptimizer /\ [][NextOptimizer]_vars

\* C29 (optimizer parameters stay in bounds, and every applied optimization
\* changes something): after any sequence of applied optimizations each
\* tunable parameter's current value lies within its [min, max], and every
\* OptimizationAction of the optimization history has old_value # new_value.
C29_BoundedAndEffective ==
    /\ \A p \in DOMAIN optimizer.optimization_parameters :
          LET parameter == optimizer.optimization_parameters[p]
          IN  parameter.min <= parameter.current /\ parameter.current <= parameter.max
    /\ \A k \in 1..Len(optimizer.optimization_history) :
          optimizer.optimization_history[k].old_value
              # optimizer.optimization_history[k].new_value

----------------------------------------------------------------------------
(* C30 *)

\* The scaler alone, after ScaleWarmCycles cycles of the traffic a workload
\* begins with, or from construction.
InitScaler ==
    /\ Constructed
    /\ budget = 0
    /\ varying = "disk_usage"
    /\ executor = [p \in 1..NumPositions |-> "ok"]
    /\ probe = NoProbe
    /\ reader = NoReader
    /\ trend_call = NoTrendCall
    /\ optimizer = OptimizerConstructed
    /\ scaler \in {ScalerConstructed}
                   \cup {ScalerWarm(ScaleWarmCycles, w) : w \in DOMAIN Workloads}

NextScaler ==
    \/ start_prediction
    \/ ScalerWake
    \/ ScalingExecuted
    \/ MonitoringDone
    \/ stop_prediction

SpecScaler == InitScaler /\ [][NextScaler]_vars

\* Every resource's current value lies within its limits.
WithinLimits(resources) ==
    \A r \in ResourceTypes :
        /\ resource_limits[r].min * Unit <= resources[r]
        /\ resources[r] <= resource_limits[r].max * Unit

====
